---- MODULE Spec2Model ----
(***************************************************************************)
(* asm2go: the instruction encoder (assembler/assembler.go) and the       *)
(* orchestrator generatePlan9Assembly (asm2go.go), as state machines.     *)
(*                                                                         *)
(* SpecEnc  : one call of MachineInstruction.WriteOutput on one           *)
(*            instruction, for every instruction / architecture tag /     *)
(*            translation flag of the bounded input sets.                 *)
(* SpecGen  : one run of generatePlan9Assembly over a symbol ->           *)
(*            instructions map.                                            *)
(* SpecExt  : one run of GnuAssembler.ProcessMachineCodeToInstructions    *)
(*            over an objdump listing and a set of requested symbols.     *)
(* SpecTab  : one call of processObjdumpTable (and parseFlagString) on    *)
(*            the rows of a symbol table.                                  *)
(* SpecMake : one call of makeAssembler, then toolExecutable for the      *)
(*            companion tools of the assembler returned.                   *)
(* SpecMain : one run of main, the command: the assembler for the -as    *)
(*            option, the useful symbols, the calls of the pipeline.       *)
(*                                                                         *)
(* Text the parsers take apart is a sequence of one-character strings.    *)
(*                                                                         *)
(* Bytes are integers 0..255, byte slices are sequences, text is a TLA+   *)
(* string built with \o exactly as the Fprintf format strings build it.   *)
(***************************************************************************)
EXTENDS Integers, Sequences, FiniteSets, TLC

VARIABLES
    instr,          \* SpecEnc: the MachineInstruction being encoded (Bytes is the shared backing array)
    orig,           \* SpecEnc: history, instr.Bytes as it was before the call
    arch,           \* the architecture tag
    tryTranslate,   \* SpecEnc: the tryTranslate argument of WriteOutput
    w,              \* SpecEnc: the Fprintf calls made on the io.Writer, in order
    err,            \* the error returned ("nil" for no error)
    pc,             \* position of the run
    syms,           \* SpecGen: map symbol -> block of MachineInstruction (backing arrays included)
    origSyms,       \* SpecGen: history, syms as handed to generatePlan9Assembly
    decls,          \* SpecGen: map function name -> SignatureString, as parsed from the Go file
    todo,           \* SpecGen: symbols the range over syms has not visited yet
    done,           \* SpecGen: history, symbols in the order the range visited them
    goDeclarationFile, \* SpecGen: the gofile argument
    outputFile,     \* SpecGen: the outputFile argument
    file,           \* SpecGen: the output file on disk, [exists, content]
    stdout,         \* SpecGen: lines that reached os.Stdout
    tw,             \* SpecGen: lines buffered inside the tabwriter, not yet flushed
    objLines,       \* SpecExt: lines, the objdump listing split at newlines (each a sequence of characters)
    wanted,         \* SpecExt: the syms argument, the symbols still to be looked up
    symInstrStrings, \* SpecExt: map symbol -> the lines of its range
    symMachInstrs,  \* SpecExt: map symbol -> instructions returned (the nil map has no entry either)
    tableRows,      \* SpecTab: the rows handed to processObjdumpTable
    symbols,        \* SpecTab: the []Symbol returned (the nil slice is the empty one)
    assemblerName,  \* SpecMake: the assemblerName argument of makeAssembler
    assemblerFile,  \* SpecMake: the assemblerFile argument of makeAssembler
    lookPath,       \* SpecMake: what exec.LookPath finds, executable name -> path ("" for not found)
    goarch,         \* SpecMake: runtime.GOARCH
    as,             \* SpecMake: the Assembler returned
    tools,          \* SpecMake: companion tool name -> path toolExecutable returned for it
    assemblerOpt,   \* SpecMain: the value of the -as option
    fileOpt,        \* SpecMain: the value of the -file option
    onDisk,         \* SpecMain: the paths os.Stat finds
    usefulSymbolMap,   \* SpecMain: map symbol name -> Symbol handed to the extraction
    usefulSymbolNames, \* SpecMain: the names of the useful symbols, in table order
    printed         \* SpecMain: the message main printed before os.Exit(1)

vars == <<instr, orig, arch, tryTranslate, w, err, pc, syms, origSyms, decls, todo, done,
          goDeclarationFile, outputFile, file, stdout, tw,
          objLines, wanted, symInstrStrings, symMachInstrs, tableRows, symbols,
          assemblerName, assemblerFile, lookPath, goarch, as, tools,
          assemblerOpt, fileOpt, onDisk, usefulSymbolMap, usefulSymbolNames, printed>>

encVars == <<instr, orig, tryTranslate, w>>
genVars == <<syms, origSyms, decls, todo, done, goDeclarationFile, outputFile, file, stdout, tw>>
extVars == <<objLines, wanted, symInstrStrings, symMachInstrs>>
tabVars == <<tableRows, symbols>>
makeVars == <<assemblerName, assemblerFile, lookPath, goarch, as, tools>>
mainVars == <<assemblerOpt, fileOpt, onDisk, usefulSymbolMap, usefulSymbolNames, printed>>

\* the variables of a function that is not running keep one fixed value
ExtIdle == objLines = <<>> /\ wanted = {} /\ symInstrStrings = <<>> /\ symMachInstrs = <<>>
TabIdle == tableRows = <<>> /\ symbols = <<>>
MakeIdle ==
    /\ assemblerName = "" /\ assemblerFile = <<>> /\ lookPath = <<>>
    /\ goarch = "" /\ as = [kind |-> "nil"] /\ tools = <<>>
MainIdle ==
    /\ assemblerOpt = <<>> /\ fileOpt = <<>> /\ onDisk = {}
    /\ usefulSymbolMap = <<>> /\ usefulSymbolNames = <<>> /\ printed = ""

-----------------------------------------------------------------------------
(* Bounds of the model *)

\* longest instruction byte sequence of the patterned family (8+4+2+1 = 15 shows every width)
MaxLen == 15
\* longest byte sequence enumerated exhaustively over a two-byte alphabet
MaxSmallLen == 4
\* longest function block in SpecGen
MaxBlock == 2

-----------------------------------------------------------------------------
(* Bytes, slices and hex rendering *)

HexDigit == <<"0","1","2","3","4","5","6","7","8","9","a","b","c","d","e","f">>

\* fmt verb %02x on one byte
Hex2(b) == HexDigit[(b \div 16) + 1] \o HexDigit[(b % 16) + 1]

\* the %02x verbs of one format string applied to args, in argument order
RECURSIVE HexOf(_)
HexOf(args) == IF args = <<>> THEN "" ELSE Hex2(Head(args)) \o HexOf(Tail(args))

\* the swap loop "for i, j := 0, len-1; i < j; i, j = i+1, j-1"
Reverse(s) == [i \in 1..Len(s) |-> s[Len(s) + 1 - i]]

\* reverseEndianness reverses the slice IN PLACE; the result is the new
\* content of the backing array
reverseEndianness(byteSlice) == Reverse(byteSlice)

RECURSIVE Concat(_)
Concat(ss) == IF ss = <<>> THEN "" ELSE Head(ss) \o Concat(Tail(ss))

RECURSIVE SumSeq(_)
SumSeq(s) == IF s = <<>> THEN 0 ELSE Head(s) + SumSeq(Tail(s))

-----------------------------------------------------------------------------
(* Error values *)

\* fmt.Sprintf(unrecognizedInstr, cmd)
unrecognizedInstr(cmd) == "instruction " \o cmd \o " not supported in plan9"

\* fmt.Sprintf(unsupportedArch, a)
unsupportedArch(a) == "architecture " \o a \o " not supported"

errIsUnsupported_onlyInstr(e, cmd, a) == e = unrecognizedInstr(cmd)

errIsUnsupported(e, cmd, a) == e = unrecognizedInstr(cmd) \/ e = unsupportedArch(a)

-----------------------------------------------------------------------------
(* writePlan9Unsupported: byte packing *)

maxBitsOf_default32(a) == IF a \in {"amd64", "arm64"} THEN 64 ELSE 32

\* the switch on arch: 64 unless the tag is arm
maxBitsOf(a) == IF a = "arm" THEN 32 ELSE 64

lengths_noByte(maxBits) == IF maxBits = 64 THEN <<8, 4, 2>> ELSE <<4>>

lengths_ascending(maxBits) == IF maxBits = 64 THEN <<1, 2, 4, 8>> ELSE <<1, 4>>

lengths(maxBits) == IF maxBits = 64 THEN <<8, 4, 2, 1>> ELSE <<4, 1>>

prefixes(maxBits) ==
    IF maxBits = 64 THEN <<"QUAD", "LONG", "WORD", "BYTE">> ELSE <<"WORD", "BYTE">>

chunkArgs_always64(chunk, maxBits, endianness) ==
    IF maxBits = 64 THEN Reverse(chunk) ELSE chunk

\* args of one Fprintf: the chunk's bytes, reversed when the target is 64-bit
\* and the instruction's bytes are little endian
chunkArgs(chunk, maxBits, endianness) ==
    IF maxBits = 64 /\ endianness = "LittleEndian" THEN Reverse(chunk) ELSE chunk

\* one Fprintf(w, prefixes[i], args...)
Directive(i, chunk, maxBits, endianness) ==
    [kind  |-> "directive",
     name  |-> prefixes(maxBits)[i],
     width |-> Len(chunk),
     lit   |-> "0x" \o HexOf(chunkArgs(chunk, maxBits, endianness)),
     text  |-> prefixes(maxBits)[i] \o " $0x"
               \o HexOf(chunkArgs(chunk, maxBits, endianness)) \o "; \t"]

\* the nested loops: for i, byteLen := range lengths { for len(opcodes) >= byteLen {...} }
RECURSIVE PackLoop(_, _, _, _)
PackLoop(opcodes, i, maxBits, endianness) ==
    IF i > Len(lengths(maxBits)) THEN <<>>
    ELSE LET byteLen == lengths(maxBits)[i] IN
         IF Len(opcodes) >= byteLen
         THEN <<Directive(i, SubSeq(opcodes, 1, byteLen), maxBits, endianness)>>
              \o PackLoop(SubSeq(opcodes, byteLen + 1, Len(opcodes)), i, maxBits, endianness)
         ELSE PackLoop(opcodes, i + 1, maxBits, endianness)

\* the Fprintf calls of writePlan9Unsupported; it always returns nil
writePlan9Unsupported(in, a) ==
    PackLoop(in.Bytes, 1, maxBitsOf(a), in.BytesEndianness)

-----------------------------------------------------------------------------
(* writePlan9Supported: native translation *)

\* armasm.Decode(src, ModeARM) followed by armasm.GoSyntax: the library reads
\* the first four bytes as a little-endian word. The one encoding the
\* repository's test table fixes as decodable is 0xe1a0200e (mov r2, lr).
armasmDecode(src) ==
    IF Len(src) >= 4 /\ SubSeq(src, 1, 4) = <<14, 32, 160, 225>>
    THEN [ok |-> TRUE, text |-> "MOVW R14, R2"]
    ELSE [ok |-> FALSE, text |-> ""]

\* result: the error, the Fprintf calls made, and the content of the backing
\* array of instr.Bytes afterwards (instrBytes := instr.Bytes aliases it)
writePlan9Supported(in, a) ==
    IF a = "arm"
    THEN LET instrBytes == reverseEndianness(in.Bytes)
             d == armasmDecode(instrBytes)
         IN  IF ~d.ok
             THEN [err |-> unrecognizedInstr(in.Command), w |-> <<>>, Bytes |-> instrBytes]
             ELSE [err |-> "nil",
                   w |-> <<[kind |-> "native", name |-> "", width |-> 0, lit |-> "",
                            text |-> d.text \o " \t"]>>,
                   Bytes |-> instrBytes]
    ELSE [err |-> unsupportedArch(a), w |-> <<>>, Bytes |-> in.Bytes]

-----------------------------------------------------------------------------
(* WriteOutput *)

Plain(kind, text) == [kind |-> kind, name |-> "", width |-> 0, lit |-> "", text |-> text]

\* Fprintf(w, "    ")
Indent == <<Plain("indent", "    ")>>

\* Fprintf(w, "// %s\t", Command); one Fprintf(w, "%s\t", arg) per argument; Fprintln(w)
Trailer(in) ==
    <<Plain("comment", "// " \o in.Command \o "\t")>>
    \o [k \in 1..Len(in.Arguments) |-> Plain("arg", in.Arguments[k] \o "\t")]
    \o <<Plain("newline", "\n")>>

WriteOutput_alwaysPack(in, a, try) ==
    LET sup == IF try THEN writePlan9Supported(in, a)
               ELSE [err |-> "skipped", w |-> <<>>, Bytes |-> in.Bytes]
        cur == [in EXCEPT !.Bytes = sup.Bytes]
    IN  [err |-> "nil",
         w |-> Indent \o sup.w \o writePlan9Unsupported(cur, a) \o Trailer(in),
         Bytes |-> cur.Bytes]

\* result: the error returned, the Fprintf calls made, the backing array afterwards
WriteOutput(in, a, try) ==
    LET sup == IF try THEN writePlan9Supported(in, a)
               ELSE [err |-> "skipped", w |-> <<>>, Bytes |-> in.Bytes]
        cur == [in EXCEPT !.Bytes = sup.Bytes]
    IN  IF try /\ sup.err = "nil"
        THEN [err |-> "nil", w |-> Indent \o sup.w \o Trailer(in), Bytes |-> cur.Bytes]
        ELSE IF try /\ ~errIsUnsupported(sup.err, in.Command, a)
        THEN [err |-> sup.err, w |-> Indent \o sup.w, Bytes |-> cur.Bytes]
        ELSE [err |-> "nil",
              w |-> Indent \o sup.w \o writePlan9Unsupported(cur, a) \o Trailer(in),
              Bytes |-> cur.Bytes]

\* the text a sequence of Fprintf calls leaves on the writer
TextOf(calls) == Concat([k \in 1..Len(calls) |-> calls[k].text])

\* the byte-packing directives among the Fprintf calls, in order
DirectivesOf(calls) == SelectSeq(calls, LAMBDA c : c.kind = "directive")

NativeOf(calls) == SelectSeq(calls, LAMBDA c : c.kind = "native")

-----------------------------------------------------------------------------
(* SpecEnc: one WriteOutput call per behaviour *)

\* distinct byte values; the first four are the bytes of "mov r2, lr" as objdump prints them
Palette == <<225, 160, 32, 14, 244, 7, 221>>

PatternBytes(n, r) == [i \in 1..n |-> Palette[((i - 1 + r) % Len(Palette)) + 1]]

SmallBytes == {14, 225}

SmallSeqs == UNION {[1..n -> SmallBytes] : n \in 0..MaxSmallLen}

\* the byte sequences of the repository's test table and of the endianness example
TestVectors == {<<225, 160, 32, 14>>, <<244, 32, 7, 221>>, <<14, 32, 160, 225>>}

ByteSeqs ==
    {PatternBytes(n, r) : n \in 0..MaxLen, r \in 0..(Len(Palette) - 1)}
    \cup SmallSeqs \cup TestVectors

\* binary.ByteOrder values of the BytesEndianness field; "nil" is the unset field
Endiannesses == {"nil", "LittleEndian", "BigEndian"}

\* (Command, Arguments) pairs
Mnemonics ==
    {[Command |-> "mov", Arguments |-> <<"r2", "lr">>],
     [Command |-> "vld1.64", Arguments |-> <<"{d0}", "[r0 :64]!">>],
     [Command |-> "nop", Arguments |-> <<>>]}

\* architecture tags: the three the code names and one it does not
Archs == {"arm", "arm64", "amd64", "386"}

Instructions ==
    {[Bytes |-> b, BytesEndianness |-> e, Command |-> m.Command, Arguments |-> m.Arguments] :
        b \in ByteSeqs, e \in Endiannesses, m \in Mnemonics}

GenIdle ==
    /\ syms = <<>> /\ origSyms = <<>> /\ decls = <<>> /\ todo = {} /\ done = <<>>
    /\ goDeclarationFile = "" /\ outputFile = ""
    /\ file = [exists |-> FALSE, content |-> <<>>] /\ stdout = <<>> /\ tw = <<>>

InitEnc ==
    /\ instr \in Instructions
    /\ orig = instr.Bytes
    /\ arch \in Archs
    /\ tryTranslate \in BOOLEAN
    /\ w = <<>>
    /\ err = "nil"
    /\ pc = "call"
    /\ GenIdle /\ ExtIdle /\ TabIdle /\ MakeIdle /\ MainIdle

\* instr.WriteOutput(arch, w, tryTranslate)
EncWriteOutput ==
    /\ pc = "call"
    /\ LET r == WriteOutput(instr, arch, tryTranslate) IN
        /\ w' = r.w
        /\ err' = r.err
        /\ instr' = [instr EXCEPT !.Bytes = r.Bytes]
    /\ pc' = "returned"
    /\ UNCHANGED <<orig, arch, tryTranslate>>
    /\ UNCHANGED <<genVars, extVars, tabVars, makeVars, mainVars>>

NextEnc == EncWriteOutput

SpecEnc == InitEnc /\ [][NextEnc]_vars

-----------------------------------------------------------------------------
(* generatePlan9Assembly *)

\* one line of text handed to the tabwriter; tabs says whether the line holds
\* a tab-terminated cell (the tabwriter buffers such lines, and flushes its
\* buffer whenever a line without one is terminated)
Line(kind, sym, text, tabs) == [kind |-> kind, sym |-> sym, text |-> text, tabs |-> tabs]

\* strings.Join(os.Args[1:], " ")
CommandLine == "-file add.s -gofile decl.go"

\* the header Fprintf: three lines
Banner ==
    <<Line("banner", "", "// Generated by asm2go " \o CommandLine \o " DO NOT EDIT\n", FALSE),
      Line("include", "", "#include \"textflag.h\"\n", FALSE),
      Line("blank", "", "\n", FALSE)>>

\* the signature Fprintf: "%s\nTEXT ·%s(SB), %s, $%d-8\n"; totalBytes is the sum
\* of ArgumentSizes and ResultSizes, which parseGoLangFileForFuncDecls never fills
SignatureLines(sym, funcDecl) ==
    <<Line("signature", sym, "// " \o funcDecl \o "\n", FALSE),
      Line("text", sym, "TEXT ·" \o sym \o "(SB), 0, $0-8\n", FALSE)>>

\* Fprintln(w, "    RET")
RetLine == Line("ret", "", "    RET\n", FALSE)

trySupportedTranslation(a) == a # "arm64"

EmitInstrs_reversed(instrs, a) ==
    LET n == Len(instrs)
        r == [k \in 1..n |-> WriteOutput(instrs[k], a, trySupportedTranslation(a))]
    IN  [err |-> "nil",
         lines |-> [k \in 1..n |-> Line("instr", "", TextOf(r[n + 1 - k].w), TRUE)],
         instrs |-> [k \in 1..n |-> [instrs[k] EXCEPT !.Bytes = r[k].Bytes]]]

\* the loop "for _, instr := range instrs": one WriteOutput per instruction in
\* slice order, stopping at the first error. Result: the error, the lines
\* written, and the block with its backing arrays as the calls left them
RECURSIVE EmitInstrs(_, _)
EmitInstrs(instrs, a) ==
    IF instrs = <<>> THEN [err |-> "nil", lines |-> <<>>, instrs |-> <<>>]
    ELSE LET r == WriteOutput(Head(instrs), a, trySupportedTranslation(a))
             hd == [Head(instrs) EXCEPT !.Bytes = r.Bytes]
         IN  IF r.err # "nil"
             THEN [err |-> r.err, lines |-> <<>>, instrs |-> <<hd>> \o Tail(instrs)]
             ELSE LET rest == EmitInstrs(Tail(instrs), a) IN
                  [err |-> rest.err,
                   lines |-> <<Line("instr", "", TextOf(r.w), TRUE)>> \o rest.lines,
                   instrs |-> <<hd>> \o rest.instrs]

FunctionBlock_noRetWhenEmpty(sym, funcDecl, instrLines) ==
    SignatureLines(sym, funcDecl) \o instrLines
    \o (IF instrLines = <<>> THEN <<>> ELSE <<RetLine>>)

\* the lines of one function block: signature, instructions, RET
FunctionBlock(sym, funcDecl, instrLines) ==
    SignatureLines(sym, funcDecl) \o instrLines \o <<RetLine>>

\* funcDecl, ok := decls[sym]
declLookup(ds, sym) == sym \in DOMAIN ds

UnknownFunction_noName(sym, goFile) ==
    "error: symbol not found in go file declaration : " \o goFile

\* fmt.Errorf("error: symbol %s not found in go file declaration : %s", sym, goDeclarationFile)
UnknownFunction(sym, goFile) ==
    "error: symbol " \o sym \o " not found in go file declaration : " \o goFile

\* the files the run may be pointed at
GoFiles == {"", "nofile.go", "broken.go", "decl.go"}
OutputFiles == {"", "out.s", "nodir/out.s"}

\* os.Stat(goDeclarationFile) succeeds
statOk(f) == f \in {"broken.go", "decl.go"}

\* parser.ParseFile succeeds
parseOk(f) == f = "decl.go"

\* os.Create(outputFile) succeeds
createOk(f) == f = "out.s"

OldContent == <<Line("old", "", "// previous content\n", FALSE)>>

\* what has reached the output: the file, or os.Stdout when outputFile is ""
Sink == IF outputFile = "" THEN stdout ELSE file.content

\* tabwriter.Write of lines onto buffer buf: [buf, flushed]
RECURSIVE twWrite(_, _)
twWrite(buf, lines) ==
    IF lines = <<>> THEN [buf |-> buf, flushed |-> <<>>]
    ELSE IF Head(lines).tabs
    THEN twWrite(buf \o <<Head(lines)>>, Tail(lines))
    ELSE LET rest == twWrite(<<>>, Tail(lines)) IN
         [buf |-> rest.buf, flushed |-> buf \o <<Head(lines)>> \o rest.flushed]

\* append flushed lines to the output
ToSink(lines) ==
    IF outputFile = ""
    THEN /\ stdout' = stdout \o lines
         /\ UNCHANGED file
    ELSE /\ file' = [file EXCEPT !.content = @ \o lines]
         /\ UNCHANGED stdout

\* lines 499-535: the checks on the declaration file, the output set-up, the header
GenStart ==
    /\ pc = "start"
    /\ UNCHANGED <<arch, syms, origSyms, decls, todo, done, goDeclarationFile, outputFile>>
    /\ UNCHANGED <<encVars, extVars, tabVars, makeVars, mainVars>>
    /\ IF goDeclarationFile = ""
       THEN /\ err' = "error: gofile must be specified"
            /\ pc' = "returned"
            /\ UNCHANGED <<file, stdout, tw>>
       ELSE IF ~statOk(goDeclarationFile)
       THEN /\ err' = "stat " \o goDeclarationFile \o ": no such file or directory"
            /\ pc' = "returned"
            /\ UNCHANGED <<file, stdout, tw>>
       ELSE IF ~parseOk(goDeclarationFile)
       THEN /\ err' = goDeclarationFile \o ": expected declaration"
            /\ pc' = "returned"
            /\ UNCHANGED <<file, stdout, tw>>
       ELSE IF outputFile # "" /\ ~createOk(outputFile)
       THEN /\ err' = "open " \o outputFile \o ": no such file or directory"
            /\ pc' = "returned"
            /\ UNCHANGED <<file, stdout, tw>>
       ELSE LET t == twWrite(tw, Banner) IN
            /\ IF outputFile = ""
               THEN stdout' = stdout \o t.flushed /\ UNCHANGED file
               ELSE file' = [exists |-> TRUE, content |-> t.flushed] /\ UNCHANGED stdout
            /\ tw' = t.buf
            /\ err' = "nil"
            /\ pc' = "range"

\* lines 539-590: one iteration of "for sym, instrs := range syms"; the order
\* of a range over a Go map is not specified
GenSymbol ==
    /\ pc = "range"
    /\ \E sym \in todo :
        /\ todo' = todo \ {sym}
        /\ done' = Append(done, sym)
        /\ IF ~declLookup(decls, sym)
           THEN /\ err' = UnknownFunction(sym, goDeclarationFile)
                /\ pc' = "returned"
                /\ tw' = <<>>
                /\ UNCHANGED <<syms, file, stdout>>
           ELSE LET e == EmitInstrs(syms[sym], arch) IN
                /\ syms' = [syms EXCEPT ![sym] = e.instrs]
                /\ IF e.err # "nil"
                   THEN LET t == twWrite(tw, SignatureLines(sym, decls[sym]) \o e.lines) IN
                        /\ ToSink(t.flushed)
                        /\ tw' = <<>>
                        /\ err' = e.err
                        /\ pc' = "returned"
                   ELSE LET t == twWrite(tw, FunctionBlock(sym, decls[sym], e.lines)) IN
                        /\ ToSink(t.flushed)
                        /\ tw' = t.buf
                        /\ UNCHANGED <<err, pc>>
    /\ UNCHANGED <<arch, origSyms, decls, goDeclarationFile, outputFile>>
    /\ UNCHANGED <<encVars, extVars, tabVars, makeVars, mainVars>>

\* lines 592-595: w.Flush() and return nil
GenFinish ==
    /\ pc = "range"
    /\ todo = {}
    /\ ToSink(tw)
    /\ tw' = <<>>
    /\ err' = "nil"
    /\ pc' = "returned"
    /\ UNCHANGED <<arch, syms, origSyms, decls, todo, done, goDeclarationFile, outputFile>>
    /\ UNCHANGED <<encVars, extVars, tabVars, makeVars, mainVars>>

\* the instructions of the generated blocks
GenInstructions ==
    {[Bytes |-> <<225, 160, 32, 14>>, BytesEndianness |-> "nil",
      Command |-> "mov", Arguments |-> <<"r2", "lr">>],
     [Bytes |-> <<244, 32, 7, 221>>, BytesEndianness |-> "nil",
      Command |-> "vld1.64", Arguments |-> <<"{d0}", "[r0 :64]!">>]}

Blocks == UNION {[1..n -> GenInstructions] : n \in 0..MaxBlock}

SymbolNames == {"Add2", "Sub2"}

\* the bodiless function declarations a Go file may hold, with their signature text
Declarations ==
    [n \in {"Add2", "Sub2"} |->
        IF n = "Add2" THEN "func Add2(x, y int32) int32" ELSE "func Sub2(x, y int32) int32"]

Restrict(f, S) == [x \in S |-> f[x]]

GenArchs == {"arm", "arm64", "amd64"}

EncIdle ==
    /\ instr = [Bytes |-> <<>>, BytesEndianness |-> "nil", Command |-> "", Arguments |-> <<>>]
    /\ orig = <<>> /\ tryTranslate = FALSE /\ w = <<>>

InitGen ==
    /\ \E names \in SUBSET SymbolNames : syms \in [names -> Blocks]
    /\ origSyms = syms
    /\ todo = DOMAIN syms
    /\ done = <<>>
    /\ \E names \in SUBSET (DOMAIN Declarations) : decls = Restrict(Declarations, names)
    /\ arch \in GenArchs
    /\ goDeclarationFile \in GoFiles
    /\ outputFile \in OutputFiles
    /\ file \in {[exists |-> FALSE, content |-> <<>>]}
                \cup (IF outputFile = "out.s"
                      THEN {[exists |-> TRUE, content |-> OldContent]} ELSE {})
    /\ stdout = <<>>
    /\ tw = <<>>
    /\ err = "nil"
    /\ pc = "start"
    /\ EncIdle /\ ExtIdle /\ TabIdle /\ MakeIdle /\ MainIdle

NextGen == GenStart \/ GenSymbol \/ GenFinish

SpecGen == InitGen /\ [][NextGen]_vars

-----------------------------------------------------------------------------
(* Text as sequences of one-character strings, and the string functions    *)
(* the objdump parsers and makeAssembler apply to it                       *)

\* what \s and unicode.IsSpace accept among the characters objdump prints
WhiteSpace == {" ", "\t", "\n", "\r", "\f"}

Digits == {"0", "1", "2", "3", "4", "5", "6", "7", "8", "9"}
LowerHex == Digits \cup {"a", "b", "c", "d", "e", "f"}
UpperHex == {"A", "B", "C", "D", "E", "F"}
LowerCase == {"a", "b", "c", "d", "e", "f", "g", "h", "i", "j", "k", "l", "m", "n", "o", "p", "q", "r", "s", "t", "u", "v", "w", "x", "y", "z"}
UpperCase == {"A", "B", "C", "D", "E", "F", "G", "H", "I", "J", "K", "L", "M", "N", "O", "P", "Q", "R", "S", "T", "U", "V", "W", "X", "Y", "Z"}

\* string(chars)
Str(cs) == Concat(cs)

Max(S) == CHOOSE x \in S : \A y \in S : y <= x
Min(S) == CHOOSE x \in S : \A y \in S : x <= y

\* the least position of a set of positions, 0 for none
First(S) == IF S = {} THEN 0 ELSE Min(S)

\* number of consecutive characters of class C in s from position i on (a greedy C*)
RunLen(s, i, C) ==
    Min({k \in i..Len(s) : s[k] \notin C} \cup {Len(s) + 1}) - i

\* the part of s from position i to the end
From(s, i) == SubSeq(s, i, Len(s))

\* strings.Index(s, c) for a one-character c, 1-based; 0 when c does not occur
IndexOf(s, c) == First({k \in 1..Len(s) : s[k] = c})

\* strings.TrimSpace(s)
TrimSpace(s) ==
    SubSeq(s, RunLen(s, 1, WhiteSpace) + 1,
              Max({j \in 1..Len(s) : s[j] \notin WhiteSpace} \cup {0}))

\* s cut at position k, or s alone when k is 0
CutAt(s, k) == IF k = 0 THEN <<s>> ELSE <<SubSeq(s, 1, k - 1), From(s, k + 1)>>

\* strings.SplitN(s, c, 2): cut at the first c
SplitN2(s, c) == CutAt(s, IndexOf(s, c))

\* strings.Split(s, c): cut at every c
RECURSIVE Split(_, _)
SplitFrom(s, c, k) ==
    IF k = 0 THEN <<s>> ELSE <<SubSeq(s, 1, k - 1)>> \o Split(From(s, k + 1), c)

Split(s, c) == SplitFrom(s, c, IndexOf(s, c))

\* strings.Map(deleteSpace, s)
deleteSpace(s) == SelectSeq(s, LAMBDA c : c \notin WhiteSpace)

\* value of one hexadecimal digit, -1 for any other character
fromHexChar(c) ==
    CASE c = "0" -> 0 [] c = "1" -> 1 [] c = "2" -> 2 [] c = "3" -> 3 [] c = "4" -> 4
      [] c = "5" -> 5 [] c = "6" -> 6 [] c = "7" -> 7 [] c = "8" -> 8 [] c = "9" -> 9
      [] c \in {"a", "A"} -> 10 [] c \in {"b", "B"} -> 11 [] c \in {"c", "C"} -> 12
      [] c \in {"d", "D"} -> 13 [] c \in {"e", "E"} -> 14 [] c \in {"f", "F"} -> 15
      [] OTHER -> -1

hexDecodeString_reversed(s) ==
    IF \E k \in 1..Len(s) : fromHexChar(s[k]) = -1
    THEN [err |-> "encoding/hex: invalid byte", bytes |-> <<>>]
    ELSE IF Len(s) % 2 # 0
    THEN [err |-> "encoding/hex: odd length hex string", bytes |-> <<>>]
    ELSE [err |-> "nil",
          bytes |-> [k \in 1..(Len(s) \div 2) |->
                        16 * fromHexChar(s[Len(s) + 1 - 2*k]) + fromHexChar(s[Len(s) + 2 - 2*k])]]

\* hex.DecodeString(s): two digits per byte; an odd length or a non-digit is an error
hexDecodeString(s) ==
    IF \E k \in 1..Len(s) : fromHexChar(s[k]) = -1
    THEN [err |-> "encoding/hex: invalid byte", bytes |-> <<>>]
    ELSE IF Len(s) % 2 # 0
    THEN [err |-> "encoding/hex: odd length hex string", bytes |-> <<>>]
    ELSE [err |-> "nil",
          bytes |-> [k \in 1..(Len(s) \div 2) |->
                        16 * fromHexChar(s[2*k - 1]) + fromHexChar(s[2*k])]]

-----------------------------------------------------------------------------
(* GnuAssembler.ProcessMachineCodeToInstructions: the regular expressions  *)

\* [a-zA-z0-9.]: the range A-z also takes in the characters between Z and a
\* (the backquote, one of them, occurs in no line of the model)
OpcodeChars == LowerCase \cup UpperCase \cup Digits \cup {".", "[", "\\", "]", "^", "_"}

\* symbolEndRegex.FindStringIndex(line) finds something:
\* the line is "\t..." or holds nothing but spaces and tabs
symbolEndRegex(line) ==
    \/ line = <<"\t", ".", ".", ".">>
    \/ \A k \in 1..Len(line) : line[k] \in {" ", "\t"}

\* regexp.MustCompile of the pattern built from sym succeeds. The names of
\* the model hold letters, digits and the metacharacters . + $ ( [ only, no
\* two + in a row and no closing bracket: the pattern compiles unless it
\* opens a group or a character class
compiles(sym) == \A k \in 1..Len(sym) : sym[k] \notin {"(", "["}

\* one character against one atom of a pattern: "." takes any character
atomMatch(a, c) == a = "." \/ a = c

\* the pattern p (atoms, each possibly followed by +, and $ for the end of
\* the line) matches at the start of the text t
RECURSIVE regexMatch(_, _)
regexMatch(p, t) ==
    IF p = <<>> THEN TRUE
    ELSE IF p[1] = "$" THEN t = <<>> /\ regexMatch(Tail(p), t)
    ELSE IF Len(p) >= 2 /\ p[2] = "+"
    THEN \E n \in 1..Len(t) :
            /\ \A k \in 1..n : atomMatch(p[1], t[k])
            /\ regexMatch(SubSeq(p, 3, Len(p)), SubSeq(t, n + 1, Len(t)))
    ELSE t # <<>> /\ atomMatch(p[1], t[1]) /\ regexMatch(Tail(p), Tail(t))

\* the line after h hex digits: one space, then <%s>: with sym put in as it is
startAfterHex(sym, line, h) ==
    /\ h >= 1
    /\ Len(line) >= h + 1
    /\ line[h + 1] = " "
    /\ regexMatch(<<"<">> \o sym \o <<">", ":">>, From(line, h + 2))

\* symbolStartRegex.FindStringIndex(line) finds something: the line starts
\* with hex digits, one space and a text the pattern <sym>: matches, the
\* characters of sym being read as a regular expression
symbolStartRegex(sym, line) == startAfterHex(sym, line, RunLen(line, 1, LowerHex))

\* the three groups of instructionRegex: the address ends at position e, the
\* bytes are the g characters from position q on, the text is the rest
instructionGroups(line, ws0, e, q, g) ==
    <<[address |-> SubSeq(line, ws0 + 1, e),
       hexBytes |-> SubSeq(line, q, q + g - 1),
       text    |-> From(line, q + g + 1)]>>

\* [0-9a-f ]+ matches g >= 1 characters at position q, a tab and a non-empty
\* rest follow
bytesRunAt(line, q, g) ==
    /\ g >= 1
    /\ q + g + 1 <= Len(line)
    /\ line[q + g] = "\t"

\* the lengths \s* may take after the colon (position p is the one after it)
\* for the rest of instructionRegex to match
spaceRuns(line, p) ==
    {k \in 0..RunLen(line, p, WhiteSpace) :
        bytesRunAt(line, p + k, RunLen(line, p + k, LowerHex \cup {" "}))}

\* the match with \s* taking k characters after the colon at position e + 1
instructionMatch(line, ws0, e, k) ==
    instructionGroups(line, ws0, e, e + 2 + k, RunLen(line, e + 2 + k, LowerHex \cup {" "}))

\* the address is the run of hex digits after ws0 white-space characters and
\* ends at position e; \s* is greedy, so it takes the longest run that lets
\* the rest match
instructionAfter(line, ws0, e, K) ==
    IF e > ws0 /\ Len(line) >= e + 1 /\ line[e + 1] = ":" /\ K # {}
    THEN instructionMatch(line, ws0, e, Max(K))
    ELSE <<>>

instructionFrom(line, ws0, e) == instructionAfter(line, ws0, e, spaceRuns(line, e + 2))

instructionLead(line, ws0) == instructionFrom(line, ws0, ws0 + RunLen(line, ws0 + 1, LowerHex))

\* instructionRegex.FindAllStringSubmatch(line, -1): at most one match, at the
\* start of the line
instructionRegex(line) == instructionLead(line, RunLen(line, 1, WhiteSpace))

\* the two groups of opcodeArgsRegex: the opcode is the c characters at the
\* start, the arguments are what follows the white space after it
opcodeGroups(s, c) ==
    IF c >= 1
    THEN <<[opcode |-> SubSeq(s, 1, c), args |-> From(s, c + RunLen(s, c + 1, WhiteSpace) + 1)]>>
    ELSE <<>>

\* opcodeArgsRegex.FindAllStringSubmatch(s, -1)
opcodeArgsRegex(s) == opcodeGroups(s, RunLen(s, 1, OpcodeChars))

-----------------------------------------------------------------------------
(* GnuAssembler.ProcessMachineCodeToInstructions                           *)

\* lines[lo:hi] of Go, indices from 0: a run-time panic unless lo <= hi <= len
sliceOk(s, lo, hi) == lo <= hi /\ hi <= Len(s)
slice(s, lo, hi) == SubSeq(s, lo + 1, hi)

\* a position of the model (from 1, 0 for none) as the Go index start or end
\* (from 0, 0 until found)
goIndex(i) == IF i = 0 THEN 0 ELSE i - 1

headerOf_last(ls, sym) ==
    Max({i \in 1..Len(ls) : symbolStartRegex(sym, ls[i])} \cup {0})

\* position of the first line symbolStartRegex matches
headerOf(ls, sym) == First({i \in 1..Len(ls) : symbolStartRegex(sym, ls[i])})

\* first loop body: start, the index of the header line
startOf(ls, sym) == goIndex(headerOf(ls, sym))

\* end, the index of the first line from the header on that symbolEndRegex matches
endFrom(ls, header) ==
    IF header = 0 THEN 0
    ELSE goIndex(First({j \in header..Len(ls) : symbolEndRegex(ls[j])}))

endOf(ls, sym) == endFrom(ls, headerOf(ls, sym))

\* formattedArgs: every argument trimmed
formatArgs(instrArgs) == [i \in 1..Len(instrArgs) |-> Str(TrimSpace(instrArgs[i]))]

\* the MachineInstruction appended for a line, or the error of opcodeArgsRegex
\* finding nothing
buildInstruction(line, m, decodedBytes, rawInstructions, opcodeMatches) ==
    IF opcodeMatches = <<>>
    THEN [err |-> "error: invalid instruction format: " \o Str(line), instrs |-> <<>>]
    ELSE [err |-> "nil",
          instrs |-> <<[Address |-> Str(m.address),
                        Bytes |-> decodedBytes,
                        RawInstruction |-> Str(m.text),
                        InstructionString |-> Str(rawInstructions[1]),
                        Comment |-> Str(TrimSpace(IF Len(rawInstructions) = 1
                                                  THEN <<>> ELSE rawInstructions[2])),
                        Command |-> Str(opcodeMatches[1].opcode),
                        Arguments |-> formatArgs(Split(opcodeMatches[1].args, ","))]>>]

parseDecoded(line, m, decoded, rawInstructions) ==
    IF decoded.err # "nil" THEN [err |-> decoded.err, instrs |-> <<>>]
    ELSE buildInstruction(line, m, decoded.bytes, rawInstructions,
                          opcodeArgsRegex(rawInstructions[1]))

\* the loop over the matches of instructionRegex: no match, nothing appended
parseMatches(line, instMatches) ==
    IF instMatches = <<>> THEN [err |-> "nil", instrs |-> <<>>]
    ELSE parseDecoded(line, instMatches[1],
                      hexDecodeString(deleteSpace(instMatches[1].hexBytes)),
                      SplitN2(instMatches[1].text, ";"))

\* the body of the loop over the lines of a symbol
parseLine(line) == parseMatches(line, instructionRegex(line))

joinParsed(first, rest) ==
    IF rest.err # "nil" THEN rest
    ELSE [err |-> "nil", instrs |-> first.instrs \o rest.instrs]

\* the loop over the lines of one symbol: stops at the first error
RECURSIVE parseLines(_)
parseRest(first, rest) ==
    IF first.err # "nil" THEN first ELSE joinParsed(first, parseLines(rest))

parseLines(instrStrings) ==
    IF instrStrings = <<>> THEN [err |-> "nil", instrs |-> <<>>]
    ELSE parseRest(parseLine(Head(instrStrings)), Tail(instrStrings))

\* what the loop over symInstrStrings can return: the error of a symbol that
\* has one (the first such symbol the range visits), or the map with an entry
\* for every symbol that got an instruction appended
parseOutcomes(parsed) ==
    IF \A sym \in DOMAIN parsed : parsed[sym].err = "nil"
    THEN {[err |-> "nil",
           instrs |-> [sym \in {s \in DOMAIN parsed : parsed[s].instrs # <<>>} |->
                          parsed[sym].instrs]]}
    ELSE {[err |-> parsed[sym].err, instrs |-> <<>>] :
            sym \in {s \in DOMAIN parsed : parsed[s].err # "nil"}}

\* header of Add2
hdrAdd2 == <<"0", "0", " ", "<", "A", "d", "d", "2", ">", ":">>
\* header of Sub2
hdrSub2 == <<"0", "8", " ", "<", "S", "u", "b", "2", ">", ":">>
\* an instruction line
insMov == <<" ", " ", " ", "0", ":", "\t", "e", "1", "a", "0", "2", "0", "0", "e", " ", "\t", "m", "o", "v", "\t", "r", "2", ",", " ", "l", "r">>
\* another one
insBx == <<" ", " ", " ", "4", ":", "\t", "e", "1", "2", "f", "f", "f", "1", "e", " ", "\t", "b", "x", "\t", "l", "r">>
\* the blank line that ends a block
blankLine == <<>>
\* the padding line that ends a block
padLine == <<"\t", ".", ".", ".">>
\* a source line, as objdump -S interleaves them: no address/bytes/text shape
sourceLine == <<" ", " ", "r", "0", " ", "=", " ", "r", "0", " ", "+", " ", "r", "1", ";">>
\* an instruction line with an odd number of hex digits
oddLine == <<" ", " ", " ", "8", ":", "\t", "e", "1", "a", " ", "\t", "n", "o", "p">>
\* an instruction line whose text starts with the comment character
noOpcodeLine == <<" ", " ", " ", "c", ":", "\t", "0", "0", " ", "\t", ";", " ", "p", "a", "d">>
\* a line of spaces and tabs
spacesLine == <<" ", " ", "\t">>
\* an instruction line with a comment
insLdr == <<" ", " ", "1", "0", ":", "\t", "e", "5", "9", "f", "0", "0", "0", "4", " ", "\t", "l", "d", "r", "\t", "r", "0", ",", " ", "[", "p", "c", ",", " ", "#", "4", "]", "\t", ";", " ", "0", "x", "1", "c">>

\* an instruction line without operands
insNop == <<" ", " ", " ", "8", ":", "\t", "e", "1", "a", "0", "0", "0", "0", "0", " ", "\t", "n", "o", "p">>
\* an instruction line whose first token holds an underscore
insUnder == <<" ", " ", " ", "c", ":", "\t", "e", "1", "a", "0", "2", "0", "0", "e", " ", "\t", "m", "o", "v", "_", "s", "\t", "r", "2", ",", " ", "l", "r">>
\* an instruction line whose first token goes on after the mnemonic characters
insPercent == <<" ", " ", "1", "0", ":", "\t", "e", "1", "2", "f", "f", "f", "1", "e", " ", "\t", "b", "x", "%", "l", "r">>
\* an instruction line whose byte run is one space
insNoBytes == <<" ", " ", "1", "4", ":", "\t", " ", "\t", "a", "d", "d">>

\* longest listing of the exhaustive family
MaxLines == 4

LineKinds == {hdrAdd2, hdrSub2, insMov, insBx, blankLine, padLine, sourceLine, oddLine}

\* listings longer than MaxLines: two blocks, adjacent or separated, well
\* formed or not, terminated or not
LongListings ==
    { <<hdrAdd2, insMov, insBx, hdrSub2, insBx, blankLine>>,
      <<hdrAdd2, insMov, insBx, padLine, blankLine, hdrSub2, insLdr, insBx, blankLine>>,
      <<sourceLine, blankLine, hdrAdd2, insMov, sourceLine, insBx, blankLine, hdrSub2, oddLine, blankLine>>,
      <<hdrAdd2, insMov, noOpcodeLine, blankLine, hdrSub2, insBx, spacesLine>>,
      <<hdrAdd2, insMov, insBx, hdrSub2, insLdr>>,
      <<hdrAdd2, insMov, blankLine, hdrAdd2, insBx, blankLine>>,
      <<hdrAdd2, insMov, insNop, insBx, blankLine, hdrSub2, insNop, blankLine>>,
      <<hdrAdd2, insUnder, insBx, blankLine, hdrSub2, insBx, blankLine>>,
      <<hdrAdd2, insPercent, blankLine, hdrSub2, insNoBytes, insBx, blankLine>> }

Listings ==
    (UNION {[1..n -> LineKinds] : n \in 1..MaxLines}) \cup LongListings

Add2 == <<"A", "d", "d", "2">>
Sub2 == <<"S", "u", "b", "2">>

\* symbol names that hold characters special in regular expressions
dotName == <<"A", "d", ".", "2">>
plusName == <<"A", "d", "d", "+", "2">>
dollarName == <<"A", "d", "d", "$", "2">>
parenName == <<"A", "d", "d", "2", "(">>
brackName == <<"A", "d", "d", "2", "[">>
MetaNames == {dotName, plusName, dollarName, parenName, brackName}

\* the header line of a name, at address 10
hdrOf(sym) == <<"1", "0", " ", "<">> \o sym \o <<">", ":">>

\* listings for the names with special characters: the block of the name
\* alone, before and after the block of Add2, and the block of Add2 alone
MetaListings ==
    UNION {{ <<hdrOf(sym), insBx, blankLine>>,
             <<hdrOf(sym), insBx, blankLine, hdrAdd2, insMov, blankLine>>,
             <<hdrAdd2, insMov, blankLine, hdrOf(sym), insBx, blankLine>>,
             <<hdrAdd2, insMov, blankLine>> } : sym \in MetaNames}

InitExt ==
    /\ \/ objLines \in Listings /\ wanted \in {{Add2}, {Sub2}, {Add2, Sub2}}
       \/ objLines \in MetaListings /\ wanted \in {{sym} : sym \in MetaNames}
                                                  \cup {{Add2, sym} : sym \in MetaNames}
    /\ symInstrStrings = <<>>
    /\ symMachInstrs = <<>>
    /\ arch = "arm"
    /\ err = "nil"
    /\ pc = "find"
    /\ EncIdle /\ GenIdle /\ TabIdle /\ MakeIdle /\ MainIdle

\* the loop over syms: the range of every symbol, or the panic of
\* regexp.MustCompile or of the slice expression lines[start+1 : end]
ExtFind ==
    /\ pc = "find"
    /\ IF \A sym \in wanted :
            /\ compiles(sym)
            /\ sliceOk(objLines, startOf(objLines, sym) + 1, endOf(objLines, sym))
       THEN /\ symInstrStrings' =
                    [sym \in wanted |->
                        slice(objLines, startOf(objLines, sym) + 1, endOf(objLines, sym))]
            /\ pc' = "parse"
       ELSE /\ pc' = "panicked"
            /\ UNCHANGED symInstrStrings
    /\ UNCHANGED <<objLines, wanted, symMachInstrs, arch, err>>
    /\ UNCHANGED <<encVars, genVars, tabVars, makeVars, mainVars>>

\* the loop over symInstrStrings
ExtParse ==
    /\ pc = "parse"
    /\ \E r \in parseOutcomes([sym \in wanted |-> parseLines(symInstrStrings[sym])]) :
        /\ symMachInstrs' = r.instrs
        /\ err' = r.err
    /\ pc' = "returned"
    /\ UNCHANGED <<objLines, wanted, symInstrStrings, arch>>
    /\ UNCHANGED <<encVars, genVars, tabVars, makeVars, mainVars>>

NextExt == ExtFind \/ ExtParse

SpecExt == InitExt /\ [][NextExt]_vars

-----------------------------------------------------------------------------
(* parseFlagString                                                         *)

FlagNames ==
    {"Local", "Global", "UniqueGlobal", "Weak", "Constructor", "Warning",
     "IndirectReference", "RelocationProcessingFunction", "Debugging", "Dynamic",
     "Function", "File", "Object"}

\* var sym assembler.Symbol: the zero value
zeroSymbol ==
    [flags |-> [f \in FlagNames |-> FALSE],
     Name |-> "", Section |-> "", AlignmentSizeField |-> 0, ValueAddressField |-> 0]

flagCases_fileAsFunction(position) ==
    CASE position = 0 -> ("l" :> {"Local"}) @@ ("g" :> {"Global"}) @@ ("u" :> {"UniqueGlobal"})
                         @@ ("!" :> {"Global", "Local"}) @@ (" " :> {})
      [] position = 1 -> ("w" :> {"Weak"}) @@ (" " :> {})
      [] position = 2 -> ("C" :> {"Constructor"}) @@ (" " :> {})
      [] position = 3 -> ("W" :> {"Warning"}) @@ (" " :> {})
      [] position = 4 -> ("I" :> {"IndirectReference"})
                         @@ ("i" :> {"RelocationProcessingFunction"}) @@ (" " :> {})
      [] position = 5 -> ("d" :> {"Debugging"}) @@ ("D" :> {"Dynamic"}) @@ (" " :> {})
      [] position = 6 -> ("F" :> {"Function"}) @@ ("f" :> {"Function"}) @@ ("O" :> {"Object"})
                         @@ (" " :> {})

\* the cases of the switch on flagString[position] other than default:
\* character -> the fields the case sets to true
flagCases(position) ==
    CASE position = 0 -> ("l" :> {"Local"}) @@ ("g" :> {"Global"}) @@ ("u" :> {"UniqueGlobal"})
                         @@ ("!" :> {"Global", "Local"}) @@ (" " :> {})
      [] position = 1 -> ("w" :> {"Weak"}) @@ (" " :> {})
      [] position = 2 -> ("C" :> {"Constructor"}) @@ (" " :> {})
      [] position = 3 -> ("W" :> {"Warning"}) @@ (" " :> {})
      [] position = 4 -> ("I" :> {"IndirectReference"})
                         @@ ("i" :> {"RelocationProcessingFunction"}) @@ (" " :> {})
      [] position = 5 -> ("d" :> {"Debugging"}) @@ ("D" :> {"Dynamic"}) @@ (" " :> {})
      [] position = 6 -> ("F" :> {"Function"}) @@ ("f" :> {"File"}) @@ ("O" :> {"Object"})
                         @@ (" " :> {})

\* the positions whose switch takes the default branch
defaultTaken(flagString) ==
    {position \in 0..6 : flagString[position + 1] \notin DOMAIN flagCases(position)}

\* the fields set to true by the switches of the positions before upTo
flagsSet(flagString, upTo) ==
    UNION {flagCases(position)[flagString[position + 1]] : position \in 0..(upTo - 1)}

setFlags(sym, names) ==
    [sym EXCEPT !.flags = [f \in FlagNames |-> (f \in names) \/ sym.flags[f]]]

DecimalDigit(n) == <<"0", "1", "2", "3", "4", "5", "6", "7", "8", "9">>[n + 1]

switchFlags_defaultUnset(sym, flagString, defaults) ==
    [err |-> "nil",
     sym |-> setFlags(sym, flagsSet(flagString, IF defaults = {} THEN 7 ELSE Min(defaults)))]

\* the seven switches in order: the first default branch returns the error,
\* the flags of the positions before it are already set
switchFlags(sym, flagString, defaults) ==
    IF defaults = {}
    THEN [err |-> "nil", sym |-> setFlags(sym, flagsSet(flagString, 7))]
    ELSE [err |-> "invalid flag at position " \o DecimalDigit(Min(defaults)) \o " : "
                    \o flagString[Min(defaults) + 1],
          sym |-> setFlags(sym, flagsSet(flagString, Min(defaults)))]

\* parseFlagString(&sym, flagString) for a flagString of seven characters, or none
parseFlagString(sym, flagString) ==
    IF Len(flagString) = 0
    THEN [err |-> "invalid arguments", sym |-> sym]
    ELSE switchFlags(sym, flagString, defaultTaken(flagString))

-----------------------------------------------------------------------------
(* processObjdumpTable                                                     *)

\* value of a string of hexadecimal digits
RECURSIVE hexValue(_)
hexValue(s) ==
    IF s = <<>> THEN 0
    ELSE 16 * hexValue(SubSeq(s, 1, Len(s) - 1)) + fromHexChar(s[Len(s)])

\* strconv.ParseUint(s, 16, 64); the numbers of the model stay far below 2^64,
\* so the range error does not occur
ParseUint(s) ==
    IF s = <<>> \/ \E k \in 1..Len(s) : fromHexChar(s[k]) = -1
    THEN [err |-> "strconv.ParseUint: parsing \"" \o Str(s) \o "\": invalid syntax", value |-> 0]
    ELSE [err |-> "nil", value |-> hexValue(s)]

rowError(text, line) == [err |-> text \o Str(line), symbols |-> <<>>]

\* sym.Section, sym.AlignmentSizeField, sym.Name and the append
rowSize(address, sym, section, size, name) ==
    IF size.err # "nil" THEN [err |-> size.err, symbols |-> <<>>]
    ELSE [err |-> "nil",
          symbols |-> <<[sym EXCEPT !.ValueAddressField = address,
                                    !.Section = Str(section),
                                    !.AlignmentSizeField = size.value,
                                    !.Name = Str(name)]>>]

rowCols_skipShort(line, address, sym, section, sizeName) ==
    IF Len(sizeName) < 2
    THEN [err |-> "nil", symbols |-> <<>>]
    ELSE rowSize(address, sym, section, ParseUint(sizeName[1]), sizeName[2])

\* cols = append([]string{cols[0]}, strings.SplitN(cols[1], " ", 2)...) and
\* the check of len(cols) < 3
rowCols(line, address, sym, section, sizeName) ==
    IF Len(sizeName) < 2
    THEN rowError("error processing objdump row (line is too short) : ", line)
    ELSE rowSize(address, sym, section, ParseUint(sizeName[1]), sizeName[2])

\* the error of parseFlagString, then cols := strings.Split(restLine[8:], "\t")
rowFlags(line, address, flagged, cols) ==
    IF flagged.err # "nil" THEN [err |-> flagged.err, symbols |-> <<>>]
    ELSE IF Len(cols) < 2
    THEN rowError("error processing objdump row (line is too short) : ", line)
    ELSE rowCols(line, address, flagged.sym, cols[1], SplitN2(cols[2], " "))

\* the error of ParseUint on the address, then the length check of restLine
rowAddress(line, address, restLine) ==
    IF address.err # "nil" THEN [err |-> address.err, symbols |-> <<>>]
    ELSE IF Len(restLine) < 8
    THEN rowError("error processing objdump row (line is missing flag column) : ", line)
    ELSE rowFlags(line, address.value,
                  parseFlagString(zeroSymbol, SubSeq(restLine, 1, 7)),
                  Split(From(restLine, 9), "\t"))

\* out := strings.SplitN(trimmedLine, " ", 2)
rowSplit(line, out) ==
    IF Len(out) < 2
    THEN rowError("error processing objdump row (line is incorrectly formatted) : ", line)
    ELSE rowAddress(line, ParseUint(out[1]), out[2])

rowTrimmed(line, trimmedLine) ==
    IF trimmedLine = <<>> THEN [err |-> "nil", symbols |-> <<>>]
    ELSE rowSplit(line, SplitN2(trimmedLine, " "))

\* the loop body: nothing for a row that is empty once trimmed, else one
\* Symbol or the error the function returns
processRow(line) == rowTrimmed(line, TrimSpace(line))

joinRows(first, rest) ==
    IF rest.err # "nil" THEN rest
    ELSE [err |-> "nil", symbols |-> first.symbols \o rest.symbols]

\* processObjdumpTable(tableRows): returns nil and the error at the first row
\* that has one
RECURSIVE processObjdumpTable(_)
rowsAfter(first, rest) ==
    IF first.err # "nil" THEN first ELSE joinRows(first, processObjdumpTable(rest))

processObjdumpTable(rows) ==
    IF rows = <<>> THEN [err |-> "nil", symbols |-> <<>>]
    ELSE rowsAfter(processRow(Head(rows)), Tail(rows))

\* a global function
rowAdd2 == <<"0", "0", "0", "0", "0", "0", "0", "0", " ", "g", " ", " ", " ", " ", " ", "F", " ", ".", "t", "e", "x", "t", "\t", "0", "0", "0", "0", "0", "0", "0", "8", " ", "A", "d", "d", "2">>
\* a local object, with white space around the row
rowSub2 == <<" ", " ", "0", "0", "0", "0", "0", "0", "0", "8", " ", "l", " ", " ", " ", " ", " ", "O", " ", ".", "d", "a", "t", "a", "\t", "0", "0", "0", "0", "0", "0", "0", "4", " ", "S", "u", "b", "2", " ", " ">>
\* an undefined symbol: no flag set
rowUnd == <<"0", "0", "0", "0", "0", "0", "0", "0", " ", " ", " ", " ", " ", " ", " ", " ", " ", "*", "U", "N", "D", "*", "\t", "0", "0", "0", "0", "0", "0", "0", "0", " ", "p", "r", "i", "n", "t", "f">>
\* an empty row
emptyRow == <<>>
\* a row of white space
spacesRow == <<" ", " ", "\t">>
\* no space after the address
noSpaceRow == <<"0", "0", "0", "0", "0", "0", "0", "0">>
\* no 7-character flag column and nothing after it
noFlagsRow == <<"0", "0", "0", "0", "0", "0", "0", "0", " ", "g", " ", " ", "F">>
\* no tab between section and size
noTabRow == <<"0", "0", "0", "0", "0", "0", "0", "0", " ", "g", " ", " ", " ", " ", " ", "F", " ", ".", "t", "e", "x", "t", " ", "0", "0", "0", "0", "0", "0", "0", "8", " ", "A", "d", "d", "2">>
\* no space between size and name
noNameRow == <<"0", "0", "0", "0", "0", "0", "0", "0", " ", "g", " ", " ", " ", " ", " ", "F", " ", ".", "t", "e", "x", "t", "\t", "0", "0", "0", "0", "0", "0", "0", "8">>
\* an address that is not hexadecimal
badAddrRow == <<"0", "0", "0", "0", "0", "0", "0", "z", " ", "g", " ", " ", " ", " ", " ", "F", " ", ".", "t", "e", "x", "t", "\t", "0", "0", "0", "0", "0", "0", "0", "8", " ", "A", "d", "d", "2">>
\* a size that is not hexadecimal
badSizeRow == <<"0", "0", "0", "0", "0", "0", "0", "0", " ", "g", " ", " ", " ", " ", " ", "F", " ", ".", "t", "e", "x", "t", "\t", "0", "0", "0", "0", "0", "0", "0", "z", " ", "A", "d", "d", "2">>
\* an illegal flag character at position 6
badFlagRow == <<"0", "0", "0", "0", "0", "0", "0", "0", " ", "g", " ", " ", " ", " ", " ", "x", " ", ".", "t", "e", "x", "t", "\t", "0", "0", "0", "0", "0", "0", "0", "8", " ", "A", "d", "d", "2">>

RowKinds ==
    {rowAdd2, rowSub2, rowUnd, emptyRow, spacesRow, noSpaceRow, noFlagsRow, noTabRow,
     noNameRow, badAddrRow, badSizeRow, badFlagRow}

\* most rows of a table of the model
MaxRows == 3

\* flag strings: at every position the characters of the cases, and one
\* character that is a flag somewhere else or in the other case
FlagStrings ==
    {<<c0, c1, c2, c3, c4, c5, c6>> :
        c0 \in {"l", "g", "u", "!", " ", "w"}, c1 \in {"w", " ", "W"}, c2 \in {"C", " ", "c"},
        c3 \in {"W", " ", "C"}, c4 \in {"I", "i", " ", "l"}, c5 \in {"d", "D", " ", "F"},
        c6 \in {"F", "f", "O", " ", "o"}}

\* a well-formed row with the flag column flagString
FlagRow(flagString) ==
    <<"0", "0", "0", "0", "0", "0", "1", "0", " ">> \o flagString
        \o <<" ", ".", "t", "e", "x", "t", "\t", "0", "0", "0", "0", "0", "0", "0", "8", " ",
             "A", "d", "d", "2">>

Tables ==
    {<<FlagRow(flagString)>> : flagString \in FlagStrings}
        \cup UNION {[1..n -> RowKinds] : n \in 1..MaxRows}

InitTab ==
    /\ tableRows \in Tables
    /\ symbols = <<>>
    /\ arch = "arm"
    /\ err = "nil"
    /\ pc = "call"
    /\ EncIdle /\ GenIdle /\ ExtIdle /\ MakeIdle /\ MainIdle

\* symbols, err := processObjdumpTable(tableRows)
TabProcess ==
    /\ pc = "call"
    /\ \E r \in {processObjdumpTable(tableRows)} :
        /\ symbols' = r.symbols
        /\ err' = r.err
    /\ pc' = "returned"
    /\ UNCHANGED <<tableRows, arch>>
    /\ UNCHANGED <<encVars, genVars, extVars, makeVars, mainVars>>

NextTab == TabProcess

SpecTab == InitTab /\ [][NextTab]_vars

-----------------------------------------------------------------------------
(* makeAssembler and GnuAssembler.toolExecutable                           *)

LastIndexOf(s, c) == Max({k \in 1..Len(s) : s[k] = c} \cup {0})

\* filepath.Split(path): the directory with its trailing slash, and the file
filepathSplit(path) ==
    [dir |-> SubSeq(path, 1, LastIndexOf(path, "/")),
     file |-> From(path, LastIndexOf(path, "/") + 1)]

\* strings.Contains(s, sub)
Contains(s, sub) ==
    \E i \in 1..(Len(s) - Len(sub) + 1) : SubSeq(s, i, i + Len(sub) - 1) = sub

\* strings.HasSuffix(s, suffix)
HasSuffix(s, suffix) ==
    Len(s) >= Len(suffix) /\ SubSeq(s, Len(s) - Len(suffix) + 1, Len(s)) = suffix

\* strings.Join(elems, "/")
RECURSIVE JoinSlash(_)
JoinSlash(elems) ==
    IF elems = <<>> THEN <<>>
    ELSE IF Len(elems) = 1 THEN elems[1]
    ELSE elems[1] \o <<"/">> \o JoinSlash(Tail(elems))

\* the path of the elements kept by filepath.Clean
cleaned(rooted, kept) ==
    IF rooted THEN <<"/">> \o JoinSlash(kept)
    ELSE IF kept = <<>> THEN <<".">> ELSE JoinSlash(kept)

\* filepath.Clean(path) for a non-empty path: empty and "." elements are
\* dropped (no path of the model holds a ".." element)
Clean(path) ==
    cleaned(path[1] = "/",
            SelectSeq(Split(path, "/"), LAMBDA e : e # <<>> /\ e # <<".">>))

\* filepath.Join(dir, asmFile): empty elements are ignored, the result is cleaned
filepathJoin(dir, asmFile) ==
    IF dir = <<>> THEN (IF asmFile = <<>> THEN <<>> ELSE Clean(asmFile))
    ELSE IF asmFile = <<>> THEN Clean(dir)
    ELSE Clean(dir \o <<"/">> \o asmFile)

\* g.toolExecutable(name)
toolExecutable(g, name) == filepathJoin(g.BinToolsFolder, g.Prefix \o name)

\* what makeAssembler returns
InvalidAssembler(e) == [panic |-> FALSE, err |-> e, as |-> [kind |-> "invalidAssembler"]]

GnuAssembler(executable, a, prefix, binToolsFolder) ==
    [panic |-> FALSE, err |-> "nil",
     as |-> [kind |-> "GnuAssembler", AsExecutable |-> executable, Arch |-> a,
             Prefix |-> prefix, BinToolsFolder |-> binToolsFolder]]

\* prefix[:len(prefix)-2] panics on a prefix shorter than two characters
slicePanic == [panic |-> TRUE, err |-> "nil", as |-> [kind |-> "nil"]]

\* case "": the architecture read off the file path
archOfFile(asmFile, runtimeGOARCH) ==
    IF Contains(asmFile, <<"a", "r", "m">>) THEN "arm"
    ELSE IF Contains(asmFile, <<"a", "a", "r", "c", "h", "6", "4">>) THEN "arm64"
    ELSE runtimeGOARCH

\* case "": the prefix is the file name without its last two characters when
\* the path ends in "as"
prefixOfFile(asmFile, prefix) ==
    IF HasSuffix(asmFile, <<"a", "s">>) THEN SubSeq(prefix, 1, Len(prefix) - 2) ELSE <<>>

gnuFromFile(asmFile, runtimeGOARCH, split) ==
    GnuAssembler(asmFile, archOfFile(asmFile, runtimeGOARCH), prefixOfFile(asmFile, split.file), split.dir)

\* case "" of the switch on assemblerName: the inner switch on the file
makeFromFile(asmFile, assemblerExec, runtimeGOARCH) ==
    IF Contains(asmFile, <<"y", "a", "s", "m">>)
    THEN InvalidAssembler(Str(asmFile) \o " is not supported yet")
    ELSE IF \/ assemblerExec = <<"a", "s">>
            \/ Contains(asmFile, <<"g", "c", "c">>)
            \/ Contains(asmFile, <<"g", "n", "u">>)
    THEN gnuFromFile(asmFile, runtimeGOARCH, filepathSplit(asmFile))
    ELSE InvalidAssembler(Str(asmFile) \o " is not supported yet")

gnuFromName(executable, a, split) ==
    IF Len(split.file) < 2 THEN slicePanic
    ELSE GnuAssembler(executable, a, SubSeq(split.file, 1, Len(split.file) - 2), split.dir)

\* cases "arm-linux-gnueabihf-as" and "gas": the file, or what exec.LookPath
\* finds for the executable name (found is empty for nothing found)
makeFromName(assemblerExecName, a, asmFile, found) ==
    IF asmFile = <<>> /\ found = <<>>
    THEN InvalidAssembler("exec: \"" \o assemblerExecName
                            \o "\": executable file not found in $PATH")
    ELSE gnuFromName(IF asmFile = <<>> THEN found ELSE asmFile, a,
                     filepathSplit(IF asmFile = <<>> THEN found ELSE asmFile))

\* makeAssembler(name, asmFile)
makeAssembler(name, asmFile, path, runtimeGOARCH) ==
    CASE name = "" -> makeFromFile(asmFile, filepathSplit(asmFile).file, runtimeGOARCH)
      [] name = "arm-linux-gnueabihf-as" ->
            makeFromName("arm-linux-gnueabihf-as", "arm", asmFile, path["arm-linux-gnueabihf-as"])
      [] name = "gas" -> makeFromName("as", runtimeGOARCH, asmFile, path["as"])
      [] OTHER -> InvalidAssembler(name \o " is not supported yet")

\* no file given
noFile == <<>>
\* the native as
usrBinAs == <<"/", "u", "s", "r", "/", "b", "i", "n", "/", "a", "s">>
\* another native as
usrLocalAs == <<"/", "u", "s", "r", "/", "l", "o", "c", "a", "l", "/", "b", "i", "n", "/", "a", "s">>
\* the cross assembler of the tests
armGnueabihfAs == <<"/", "u", "s", "r", "/", "b", "i", "n", "/", "a", "r", "m", "-", "l", "i", "n", "u", "x", "-", "g", "n", "u", "e", "a", "b", "i", "h", "f", "-", "a", "s">>
\* a cross assembler with gnu in its name
aarch64GnuAs == <<"/", "u", "s", "r", "/", "b", "i", "n", "/", "a", "a", "r", "c", "h", "6", "4", "-", "l", "i", "n", "u", "x", "-", "g", "n", "u", "-", "a", "s">>
\* a GNU cross assembler without gcc or gnu in its path
armNoneEabiAs == <<"/", "o", "p", "t", "/", "c", "r", "o", "s", "s", "/", "b", "i", "n", "/", "a", "r", "m", "-", "n", "o", "n", "e", "-", "e", "a", "b", "i", "-", "a", "s">>
\* the compiler driver
usrBinGcc == <<"/", "u", "s", "r", "/", "b", "i", "n", "/", "g", "c", "c">>
\* yasm
usrBinYasm == <<"/", "u", "s", "r", "/", "b", "i", "n", "/", "y", "a", "s", "m">>
\* armcc
usrBinArmcc == <<"/", "u", "s", "r", "/", "b", "i", "n", "/", "a", "r", "m", "c", "c">>
\* as in the working directory, no folder
relativeAs == <<"a", "s">>
\* as in the working directory
dotAs == <<".", "/", "a", "s">>
\* a path that is not clean
doubleSlashAs == <<"/", "o", "p", "t", "/", "/", "b", "i", "n", "/", "a", "s">>
\* a file name of one letter
oneLetter == <<"/", "o", "p", "t", "/", "g", "n", "u", "/", "b", "i", "n", "/", "x">>

AssemblerFiles ==
    {noFile, usrBinAs, armGnueabihfAs, aarch64GnuAs, armNoneEabiAs, usrBinGcc, usrBinYasm,
     usrBinArmcc, relativeAs, dotAs, doubleSlashAs, oneLetter}

AssemblerNames == {"", "gas", "arm-linux-gnueabihf-as", "yasm"}

\* what $PATH may hold for the two executable names makeAssembler looks up
LookPaths ==
    {[x \in {"as", "arm-linux-gnueabihf-as"} |-> IF x = "as" THEN native ELSE cross] :
        native \in {<<>>, usrBinAs, usrLocalAs}, cross \in {<<>>, armGnueabihfAs}}

GoArchs == {"amd64", "arm64", "arm", "386"}

\* the companion tools the GnuAssembler runs
ToolNames ==
    [objdump |-> <<"o", "b", "j", "d", "u", "m", "p">>, strip |-> <<"s", "t", "r", "i", "p">>]

InitMake ==
    /\ assemblerName \in AssemblerNames
    /\ assemblerFile \in AssemblerFiles
    /\ lookPath \in LookPaths
    /\ goarch \in GoArchs
    /\ as = [kind |-> "nil"]
    /\ tools = <<>>
    /\ arch = ""
    /\ err = "nil"
    /\ pc = "call"
    /\ EncIdle /\ GenIdle /\ ExtIdle /\ TabIdle /\ MainIdle

\* as, err := makeAssembler(assemblerName, assemblerFile)
MakeAssembler ==
    /\ pc = "call"
    /\ \E r \in {makeAssembler(assemblerName, assemblerFile, lookPath, goarch)} :
        /\ as' = r.as
        /\ err' = r.err
        /\ pc' = IF r.panic THEN "panicked" ELSE IF r.err # "nil" THEN "failed" ELSE "made"
        /\ arch' = IF r.as.kind = "GnuAssembler" THEN r.as.Arch ELSE arch
    /\ UNCHANGED <<assemblerName, assemblerFile, lookPath, goarch, tools>>
    /\ UNCHANGED <<encVars, genVars, extVars, tabVars, mainVars>>

\* g.toolExecutable(tool) on the assembler returned, once per tool
ToolExecutable ==
    /\ pc = "made"
    /\ \E tool \in DOMAIN ToolNames \ DOMAIN tools :
        tools' = tools @@ (tool :> toolExecutable(as, ToolNames[tool]))
    /\ UNCHANGED <<assemblerName, assemblerFile, lookPath, goarch, as, arch, err, pc>>
    /\ UNCHANGED <<encVars, genVars, extVars, tabVars, mainVars>>

NextMake == MakeAssembler \/ ToolExecutable

SpecMake == InitMake /\ [][NextMake]_vars

-----------------------------------------------------------------------------
(* main                                                                    *)

upperLetters == <<"A", "B", "C", "D", "E", "F", "G", "H", "I", "J", "K", "L", "M", "N", "O", "P", "Q", "R", "S", "T", "U", "V", "W", "X", "Y", "Z">>
lowerLetters == <<"a", "b", "c", "d", "e", "f", "g", "h", "i", "j", "k", "l", "m", "n", "o", "p", "q", "r", "s", "t", "u", "v", "w", "x", "y", "z">>

\* strings.ToLower(s)
toLowerChar(c) ==
    IF c \in UpperCase THEN lowerLetters[CHOOSE i \in 1..26 : upperLetters[i] = c] ELSE c
ToLower(s) == [k \in 1..Len(s) |-> toLowerChar(s[k])]

\* os.Stat(path) returns no error
statOf(disk, path) == path \in disk

\* the one directory of $PATH
PathDir == <<"/", "u", "s", "r", "/", "b", "i", "n", "/">>

\* exec.LookPath(name), empty for the error: a name with a slash is tried as
\* it is, any other name in the directory of $PATH
LookPath(disk, name) ==
    IF name = <<>> THEN <<>>
    ELSE IF Contains(name, <<"/">>) THEN (IF name \in disk THEN name ELSE <<>>)
    ELSE IF (PathDir \o name) \in disk THEN PathDir \o name ELSE <<>>

\* what exec.LookPath finds for the two names makeAssembler looks up
lookPathOf(disk) ==
    [x \in {"as", "arm-linux-gnueabihf-as"} |->
        LookPath(disk, IF x = "as" THEN <<"a", "s">> ELSE filepathSplit(armGnueabihfAs).file)]

optGas == <<"g", "a", "s">>
optAs == <<"a", "s">>
optGcc == <<"g", "c", "c">>
optYasm == <<"y", "a", "s", "m">>
optArmcc == <<"a", "r", "m", "c", "c">>

\* the chain of else-ifs on assemblerString: the makeAssembler call to make,
\* nothing at all for yasm and armcc, or the exit for an unknown assembler
assemblerChoice(opt, assemblerString, assemblerOnPath, disk) ==
    IF assemblerString \in {optGas, optAs, optGcc}
    THEN [kind |-> "make", name |-> "gas", asmFile |-> <<>>]
    ELSE IF assemblerString = optYasm THEN [kind |-> "todo", name |-> "", asmFile |-> <<>>]
    ELSE IF assemblerString = optArmcc THEN [kind |-> "todo", name |-> "", asmFile |-> <<>>]
    ELSE IF statOf(disk, opt) THEN [kind |-> "make", name |-> "", asmFile |-> opt]
    ELSE IF statOf(disk, assemblerOnPath)
    THEN [kind |-> "make", name |-> "", asmFile |-> assemblerOnPath]
    ELSE [kind |-> "unsupported", name |-> "", asmFile |-> <<>>]

\* as and err after the chain: those of makeAssembler when it is called,
\* else the nil interface of "var as" and the nil error of os.Stat(file)
assemblerOf(choice, path, runtimeGOARCH) ==
    IF choice.kind = "make" THEN makeAssembler(choice.name, choice.asmFile, path, runtimeGOARCH)
    ELSE [panic |-> FALSE, err |-> "nil", as |-> [kind |-> "nil"]]

useful_fileKept(sym) ==
    /\ ~sym.flags["Debugging"] /\ ~sym.flags["Warning"]
    /\ sym.Section # "*UND*" /\ sym.Section # "*ABS*"

\* the condition of the loop over syms
useful(sym) ==
    /\ ~sym.flags["Debugging"] /\ ~sym.flags["Warning"] /\ ~sym.flags["File"]
    /\ sym.Section # "*UND*" /\ sym.Section # "*ABS*"

\* usefulSymbolNames after the loop
namesOf(ss) == [k \in 1..Len(ss) |-> ss[k].Name]

\* usefulSymbolMap after the loop: a later symbol replaces an earlier one of
\* the same name
mapOf(ss) ==
    [name \in {ss[k].Name : k \in 1..Len(ss)} |->
        ss[Max({k \in 1..Len(ss) : ss[k].Name = name})]]

\* a row of the symbol table
SymRow(flagString, section, name) ==
    <<"0", "0", "0", "0", "0", "0", "0", "0", " ">> \o flagString \o <<" ">> \o section
        \o <<"\t", "0", "0", "0", "0", "0", "0", "0", "8", " ">> \o name

secText == <<".", "t", "e", "x", "t">>
secAbs == <<"*", "A", "B", "S", "*">>
\* the file symbol objdump prints first
rowFile == SymRow(<<"l", " ", " ", " ", " ", "d", "f">>, secAbs, <<"a", "d", "d", ".", "s">>)
\* a constant
rowAbs == SymRow(<<"l", " ", " ", " ", " ", " ", " ">>, secAbs, <<"L", "I", "M", "I", "T">>)
\* a section symbol
rowDebug == SymRow(<<"l", " ", " ", " ", " ", "d", " ">>, secText, <<".", "t", "e", "x", "t">>)
\* a warning symbol with the name of a function
rowWarn == SymRow(<<"g", " ", " ", "W", " ", " ", " ">>, secText, Add2)
\* a file symbol in a real section
rowFileText == SymRow(<<"l", " ", " ", " ", " ", " ", "f">>, secText, <<"c", "r", "t", ".", "c">>)

MainRowKinds == {rowAdd2, rowSub2, rowUnd, rowFile, rowAbs, rowDebug, rowWarn, rowFileText}

\* most symbols of a table in SpecMain
MaxSyms == 2

MainTables ==
    (UNION {[1..n -> MainRowKinds] : n \in 1..MaxSyms})
        \cup {<<rowFile, rowDebug, rowAdd2, rowSub2, rowUnd>>, <<rowAdd2, badFlagRow>>}

\* the file to assemble
addS == <<"a", "d", "d", ".", "s">>

AssemblerOpts ==
    {optGas, optAs, optGcc, <<"G", "A", "S">>, optYasm, <<"Y", "a", "s", "m">>, optArmcc, <<"n", "a", "s", "m">>,
     usrBinAs, armGnueabihfAs, armNoneEabiAs, usrBinYasm, filepathSplit(armGnueabihfAs).file}

Disks ==
    {{}, {addS}, {addS, usrBinAs}, {addS, usrBinAs, armGnueabihfAs}, {addS, armNoneEabiAs},
     {addS, usrBinAs, usrBinYasm, usrBinArmcc}, {addS, usrBinYasm}, {usrBinAs}}

InitMain ==
    /\ assemblerOpt \in AssemblerOpts
    /\ fileOpt \in {<<>>, addS}
    /\ onDisk \in Disks
    /\ lookPath = lookPathOf(onDisk)
    /\ goarch \in {"amd64", "arm"}
    /\ assemblerName = "" /\ assemblerFile = <<>>
    /\ as = [kind |-> "nil"]
    /\ tools = <<>>
    /\ tableRows = <<>> /\ symbols = <<>>
    /\ usefulSymbolMap = <<>> /\ usefulSymbolNames = <<>>
    /\ printed = ""
    /\ arch = ""
    /\ err = "nil"
    /\ pc = "stat"
    /\ EncIdle /\ GenIdle /\ ExtIdle

\* lines 607-615: os.Stat(file)
MainStat ==
    /\ pc = "stat"
    /\ IF statOf(onDisk, fileOpt)
       THEN /\ pc' = "assembler"
            /\ UNCHANGED <<err, printed>>
       ELSE /\ err' = "stat " \o Str(fileOpt) \o ": no such file or directory"
            /\ printed' = "error checking file: " \o err' \o "\n"
            /\ pc' = "exit1"
    /\ UNCHANGED <<assemblerOpt, fileOpt, onDisk, usefulSymbolMap, usefulSymbolNames>>
    /\ UNCHANGED <<arch, makeVars, tabVars, encVars, genVars, extVars>>

\* what lines 617-642 leave behind
MainSelected(choice, r) ==
    /\ assemblerName' = choice.name
    /\ assemblerFile' = choice.asmFile
    /\ IF choice.kind = "unsupported"
       THEN /\ printed' = "assembler " \o Str(assemblerOpt) \o " not supported\n"
            /\ pc' = "exit1"
            /\ UNCHANGED <<as, err, arch>>
       ELSE IF r.panic
       THEN /\ pc' = "panicked"
            /\ UNCHANGED <<as, err, arch, printed>>
       ELSE /\ as' = r.as
            /\ err' = r.err
            /\ arch' = IF r.as.kind = "GnuAssembler" THEN r.as.Arch ELSE arch
            /\ IF r.err # "nil"
               THEN /\ printed' = "error finding assembler: " \o r.err \o "\n"
                    /\ pc' = "exit1"
               ELSE /\ pc' = "assemble"
                    /\ UNCHANGED printed

\* lines 617-642: the assembler for the -as option
MainAssembler ==
    /\ pc = "assembler"
    /\ \E choice \in {assemblerChoice(assemblerOpt, ToLower(assemblerOpt),
                                      LookPath(onDisk, ToLower(assemblerOpt)), onDisk)} :
          \E r \in {assemblerOf(choice, lookPath, goarch)} : MainSelected(choice, r)
    /\ UNCHANGED <<assemblerOpt, fileOpt, onDisk, usefulSymbolMap, usefulSymbolNames>>
    /\ UNCHANGED <<lookPath, goarch, tools, tabVars, encVars, genVars, extVars>>

\* lines 646-650: as.AssembleToMachineCode, a method call on the interface
\* value as: a nil-pointer panic when as is nil, else the outcome of running
\* the assembler
MainAssemble ==
    /\ pc = "assemble"
    /\ IF as.kind = "nil"
       THEN /\ pc' = "panicked"
            /\ UNCHANGED <<err, printed>>
       ELSE IF as.kind = "invalidAssembler"
       THEN /\ err' = "unimplemented assembler"
            /\ printed' = err' \o "\n"
            /\ pc' = "exit1"
       ELSE \E ran \in BOOLEAN :
            IF ran
            THEN /\ pc' = "symbols"
                 /\ UNCHANGED <<err, printed>>
            ELSE /\ err' = "error assembling (exit status 1) : \n"
                 /\ printed' = err' \o "\n"
                 /\ pc' = "exit1"
    /\ UNCHANGED <<assemblerOpt, fileOpt, onDisk, usefulSymbolMap, usefulSymbolNames>>
    /\ UNCHANGED <<arch, makeVars, tabVars, encVars, genVars, extVars>>

\* lines 653-657: as.ParseObjectSymbols, the symbol table objdump prints
\* handed to processObjdumpTable
MainSymbols ==
    /\ pc = "symbols"
    /\ \E rows \in MainTables : \E r \in {processObjdumpTable(rows)} :
        /\ tableRows' = rows
        /\ symbols' = r.symbols
        /\ err' = r.err
        /\ IF r.err # "nil"
           THEN printed' = r.err \o "\n" /\ pc' = "exit1"
           ELSE pc' = "filter" /\ UNCHANGED printed
    /\ UNCHANGED <<assemblerOpt, fileOpt, onDisk, usefulSymbolMap, usefulSymbolNames>>
    /\ UNCHANGED <<arch, makeVars, encVars, genVars, extVars>>

\* lines 667-674: the useful symbols
MainFilter ==
    /\ pc = "filter"
    /\ \E us \in {SelectSeq(symbols, useful)} :
        /\ usefulSymbolNames' = namesOf(us)
        /\ usefulSymbolMap' = mapOf(us)
    /\ pc' = "extract"
    /\ UNCHANGED <<assemblerOpt, fileOpt, onDisk, printed>>
    /\ UNCHANGED <<arch, err, makeVars, tabVars, encVars, genVars, extVars>>

\* lines 678-682: as.ProcessMachineCodeToInstructions(objectFile, usefulSymbolMap),
\* lines 688-692: generatePlan9Assembly; each returns an error or none
MainGenerate ==
    /\ pc \in {"extract", "generate"}
    /\ \E failed \in BOOLEAN :
        IF failed
        THEN /\ err' = IF pc = "extract" THEN "error: invalid instruction format"
                       ELSE "error: gofile must be specified"
             /\ printed' = err' \o "\n"
             /\ pc' = "exit1"
        ELSE /\ pc' = IF pc = "extract" THEN "generate" ELSE "exit0"
             /\ UNCHANGED <<err, printed>>
    /\ UNCHANGED <<assemblerOpt, fileOpt, onDisk, usefulSymbolMap, usefulSymbolNames>>
    /\ UNCHANGED <<arch, makeVars, tabVars, encVars, genVars, extVars>>

NextMain ==
    MainStat \/ MainAssembler \/ MainAssemble \/ MainSymbols \/ MainFilter \/ MainGenerate

SpecMain == InitMain /\ [][NextMain]_vars

-----------------------------------------------------------------------------
(* Properties of the encoder, checked under SpecEnc *)

Returned == pc = "returned"

\* the instruction as it was handed to WriteOutput
instr0 == [instr EXCEPT !.Bytes = orig]

\* the byte-packing routine ran: no error, no native form on the line
Packed == Returned /\ err = "nil" /\ NativeOf(w) = <<>>

Widths(dirs) == [k \in 1..Len(dirs) |-> dirs[k].width]

\* number of bytes consumed before directive k
Offset(dirs, k) == SumSeq(SubSeq(Widths(dirs), 1, k - 1))

\* the bytes directive k packs, taken from the byte sequence the packer was handed
ChunkOf(bytes, dirs, k) == SubSeq(bytes, Offset(dirs, k) + 1, Offset(dirs, k) + dirs[k].width)

\* the widths the claim allows for an architecture tag
AllowedWidths(a) == IF a = "arm" THEN {4, 1} ELSE {8, 4, 2, 1}

DirectiveName(a, width) ==
    IF a = "arm" THEN (IF width = 4 THEN "WORD" ELSE "BYTE")
    ELSE CASE width = 8 -> "QUAD" [] width = 4 -> "LONG" [] width = 2 -> "WORD" [] OTHER -> "BYTE"

C2_WidthsSumToLen ==
    Packed =>
        LET dirs == DirectivesOf(w) IN
        /\ SumSeq(Widths(dirs)) = Len(instr.Bytes)
        /\ \A k \in 1..Len(dirs) :
              /\ dirs[k].width >= 1
              /\ \/ dirs[k].lit = "0x" \o HexOf(ChunkOf(instr.Bytes, dirs, k))
                 \/ dirs[k].lit = "0x" \o HexOf(Reverse(ChunkOf(instr.Bytes, dirs, k)))
        /\ (instr.Bytes = <<>>) => (dirs = <<>>)

C2_Witness ==
    /\ Packed /\ arch = "arm" /\ Len(instr.Bytes) = 7
    /\ Widths(DirectivesOf(w)) = <<4, 1, 1, 1>>

\* C3: packing is greedy and largest-chunk-first: every emitted width is one
\* of {8,4,2,1} (QUAD, LONG, WORD, BYTE) on a 64-bit-word target and of {4,1}
\* (WORD, BYTE) on arm, each directive has the widest such width that still
\* fits the bytes remaining, the widths are non-increasing, and a 4-byte arm
\* instruction gives exactly one 4-byte WORD directive.
C3_GreedyLargestFirst ==
    Packed =>
        LET dirs == DirectivesOf(w)
            n == Len(instr.Bytes)
        IN
        /\ \A k \in 1..Len(dirs) :
              LET remaining == n - Offset(dirs, k) IN
              /\ dirs[k].width \in AllowedWidths(arch)
              /\ dirs[k].width <= remaining
              /\ \A wider \in AllowedWidths(arch) : wider > dirs[k].width => remaining < wider
              /\ dirs[k].name = DirectiveName(arch, dirs[k].width)
        /\ \A k \in 1..(Len(dirs) - 1) : dirs[k].width >= dirs[k + 1].width
        /\ (arch = "arm" /\ n = 4) =>
              (Len(dirs) = 1 /\ dirs[1].width = 4 /\ dirs[1].name = "WORD")

C3_Witness ==
    /\ Packed /\ arch = "arm64" /\ Len(instr.Bytes) = 15
    /\ Widths(DirectivesOf(w)) = <<8, 4, 2, 1>>

\* C4: with native translation enabled for arm and bytes the decoder cannot
\* decode, WriteOutput returns no error and emits exactly the text it emits
\* for the same instruction with native translation disabled.
C4_FallbackSameAsDisabled ==
    (Returned /\ arch = "arm" /\ tryTranslate /\ ~armasmDecode(Reverse(orig)).ok) =>
        /\ err = "nil"
        /\ TextOf(w) = TextOf(WriteOutput(instr0, "arm", FALSE).w)

\* C5: with native translation enabled for arm and bytes that decode,
\* WriteOutput emits the destination-dialect mnemonic form (MOVW R14, R2 for
\* e1a0200e) and no byte-packing directive for that instruction.
C5_NativeOnly ==
    (Returned /\ arch = "arm" /\ tryTranslate /\ armasmDecode(Reverse(orig)).ok) =>
        /\ err = "nil"
        /\ Len(NativeOf(w)) = 1
        /\ NativeOf(w)[1].text = armasmDecode(Reverse(orig)).text \o " \t"
        /\ DirectivesOf(w) = <<>>
        /\ orig = <<225, 160, 32, 14>> =>
              TextOf(w) = "    MOVW R14, R2 \t" \o TextOf(Trailer(instr))

C5_Witness ==
    /\ Returned /\ arch = "arm" /\ tryTranslate /\ orig = <<225, 160, 32, 14>>
    /\ instr.Command = "mov"
    /\ TextOf(w) = "    MOVW R14, R2 \t// mov\tr2\tlr\t\n"

\* C6: for an architecture tag without a native decoder (any tag but arm),
\* WriteOutput with native translation enabled and with it disabled return
\* the same error value and leave byte-identical text on the writer.
C6_FallbackDeterminism ==
    (Returned /\ arch # "arm") =>
        LET other == WriteOutput(instr0, arch, ~tryTranslate) IN
        /\ err = other.err
        /\ TextOf(w) = TextOf(other.w)

C6_Witness ==
    /\ Returned /\ arch = "amd64" /\ tryTranslate /\ err = "nil"
    /\ Len(DirectivesOf(w)) = 2

\* the architecture tags the encoder names
KnownArchs == {"arm", "arm64", "amd64"}

\* C17: with native translation enabled, an arm instruction whose byte count
\* is not a multiple of 4 makes WriteOutput return an error instead of
\* falling back to byte-packing.
C17_MalformedByteCountFails ==
    (Returned /\ arch = "arm" /\ tryTranslate /\ Len(orig) % 4 # 0) =>
        /\ err # "nil"
        /\ DirectivesOf(w) = <<>>

C19_BytesUnchanged ==
    Returned => instr.Bytes = orig

-----------------------------------------------------------------------------
(* Properties of generatePlan9Assembly, checked under SpecGen *)

\* every line written so far, in the order written
Written == Sink \o tw

\* the symbols whose header was written, in the order the range visited them
Emitted == SelectSeq(done, LAMBDA sym : declLookup(decls, sym))

\* the symbols of the mapping without a declaration of the same name
Undeclared == DOMAIN origSyms \ DOMAIN decls

\* the checks before the loop passed: the range over syms was entered
LoopEntered == statOk(goDeclarationFile) /\ parseOk(goDeclarationFile)
               /\ (outputFile = "" \/ createOk(outputFile))

\* the text of the line WriteOutput leaves for one extracted instruction
InstructionLine(in) == TextOf(WriteOutput(in, arch, arch # "arm64").w)

\* C7: within a function block there is exactly one output line per
\* instruction, and the k-th instruction line is the line of the k-th
\* instruction of the extracted block, for every block length N >= 0.
C7_OneLinePerInstructionInOrder ==
    LET L == Written IN
    /\ \A i \in 1..Len(L) :
          L[i].kind = "text" =>
              LET blk == origSyms[L[i].sym]
                  n == Len(blk)
              IN  /\ i + n + 1 <= Len(L)
                  /\ \A k \in 1..n :
                        /\ L[i + k].kind = "instr"
                        /\ L[i + k].text = InstructionLine(blk[k])
                  /\ L[i + n + 1].kind # "instr"
    /\ Len(SelectSeq(L, LAMBDA l : l.kind = "text")) = Len(Emitted)

C7_Witness ==
    /\ pc = "returned" /\ err = "nil" /\ arch = "arm"
    /\ "Add2" \in DOMAIN origSyms
    /\ Len(origSyms["Add2"]) = 2
    /\ origSyms["Add2"][1].Command = "vld1.64"
    /\ origSyms["Add2"][2].Command = "mov"
    /\ \E i \in 1..Len(Written) :
          /\ Written[i].kind = "text" /\ Written[i].sym = "Add2"
          /\ Written[i + 2].text = "    MOVW R14, R2 \t// mov\tr2\tlr\t\n"

\* C8: every function block that is emitted ends with exactly one RET line,
\* placed after the block's last instruction line and before the next
\* function's header, whatever the block's length.
C8_OneRetPerBlock ==
    LET L == Written IN
    /\ \A i \in 1..Len(L) :
          L[i].kind = "text" =>
              \E j \in (i + 1)..Len(L) :
                  /\ L[j].kind = "ret"
                  /\ \A m \in (i + 1)..(j - 1) : L[m].kind = "instr"
                  /\ j - i - 1 = Len(origSyms[L[i].sym])
    /\ \A j \in 1..Len(L) :
          L[j].kind = "ret" =>
              \E i \in 1..(j - 1) :
                  /\ L[i].kind = "text"
                  /\ \A m \in (i + 1)..(j - 1) : L[m].kind = "instr"
    /\ Len(SelectSeq(L, LAMBDA l : l.kind = "ret")) = Len(Emitted)

C8_Witness ==
    /\ pc = "returned" /\ err = "nil" /\ Len(Emitted) = 2
    /\ origSyms[Emitted[1]] = <<>>
    /\ Len(origSyms[Emitted[2]]) = 2
    /\ Len(SelectSeq(Written, LAMBDA l : l.kind = "ret")) = 2

C10_NoPartialOutput ==
    (pc = "returned" /\ err # "nil") =>
        /\ stdout = <<>>
        /\ file.exists => file.content = OldContent

\* the orders in which the symbols of S can be visited
OrdersOf(S) ==
    {o \in [1..Cardinality(S) -> S] : \A i, j \in 1..Cardinality(S) : o[i] = o[j] => i = j}

\* the function blocks of the symbols of order o, one after the other
RECURSIVE BlocksInOrder(_)
BlocksInOrder(o) ==
    IF o = <<>> THEN <<>>
    ELSE FunctionBlock(Head(o), decls[Head(o)], EmitInstrs(origSyms[Head(o)], arch).lines)
         \o BlocksInOrder(Tail(o))

\* C26: the output of a successful run is a function of its inputs: whatever
\* the order in which the functions could be visited, the output is the one
\* this run produced, also for two or more functions.
C26_OutputDeterminedByInputs ==
    (pc = "returned" /\ err = "nil") =>
        \A o \in OrdersOf(DOMAIN origSyms) : Sink = Banner \o BlocksInOrder(o)

-----------------------------------------------------------------------------
(* Properties of ProcessMachineCodeToInstructions, checked under SpecExt *)

\* the first loop is over: every symbol has its range of lines
Ranged == pc \in {"parse", "returned"}

\* a line that yields an instruction
Parsable(line) == parseLine(line).err = "nil" /\ parseLine(line).instrs # <<>>

\* a header line of sym
IsHeader(sym, line) == symbolStartRegex(sym, line)

\* C11: a line inside a symbol's range that cannot be parsed (no
\* address/bytes/text shape, or undecodable hex bytes) makes the whole
\* extraction fail; it is never skipped while the other lines are returned.
C11_UnparsableLineFails ==
    (Returned /\ \E sym \in wanted : \E i \in 1..Len(symInstrStrings[sym]) :
                    ~Parsable(symInstrStrings[sym][i]))
        => (err # "nil" /\ symMachInstrs = <<>>)

\* C12: when a requested symbol has no header line in the listing, the
\* extraction returns an error value: it does not crash and it does not
\* return a result.
C12_MissingSymbolIsAnError ==
    (pc # "find" /\ \E sym \in wanted : \A i \in 1..Len(objLines) : ~IsHeader(sym, objLines[i]))
        => (pc # "panicked" /\ (Returned => err # "nil"))

\* C13: the range of a symbol starts after its header, ends before the first
\* blank or padding line after it, and holds no header line of another
\* symbol, even when that header follows the last instruction directly.
C13_RangeStopsAtNextHeader ==
    Ranged => \A sym \in wanted :
        /\ symInstrStrings[sym] =
              SubSeq(objLines, headerOf(objLines, sym) + 1,
                     Min({j \in headerOf(objLines, sym)..Len(objLines) :
                            symbolEndRegex(objLines[j])}) - 1)
        /\ \A i \in 1..Len(symInstrStrings[sym]) : \A other \in {Add2, Sub2} \ {sym} :
              ~IsHeader(other, symInstrStrings[sym][i])

\* the lines of a range that instructionRegex matches, in order
MatchedLines(instrStrings) ==
    SelectSeq(instrStrings, LAMBDA line : instructionRegex(line) # <<>>)

\* the hex digits of the byte-pair run of a matched line: the run without its
\* spaces
HexDigitsOf(line) == SelectSeq(instructionRegex(line)[1].hexBytes, LAMBDA c : c # " ")

\* bytes are the pairs of digits, in the order printed
BytesOfDigits(bytes, digits) ==
    /\ 2 * Len(bytes) = Len(digits)
    /\ \A k \in 1..Len(bytes) : bytes[k] = hexValue(SubSeq(digits, 2*k - 1, 2*k))

\* the instructions extracted for sym are those of the matched lines, one each
BytesOfLines(sym, matched) ==
    matched # <<>> =>
        /\ sym \in DOMAIN symMachInstrs
        /\ Len(symMachInstrs[sym]) = Len(matched)
        /\ \A k \in 1..Len(matched) :
              BytesOfDigits(symMachInstrs[sym][k].Bytes, HexDigitsOf(matched[k]))

OddRun(matched) == \E k \in 1..Len(matched) : Len(HexDigitsOf(matched[k])) % 2 = 1

DecodedAsPrinted(sym, matched) ==
    /\ OddRun(matched) => (err # "nil" /\ symMachInstrs = <<>>)
    /\ err = "nil" => BytesOfLines(sym, matched)

\* C21: the bytes of every instruction are the hex byte-pair run of its line
\* with the white space deleted, decoded pair by pair in the order printed;
\* a run with an odd number of hex digits makes the extraction return an
\* error and no instructions.
C21_BytesDecodedAsPrinted ==
    Returned => \A sym \in wanted : DecodedAsPrinted(sym, MatchedLines(symInstrStrings[sym]))

C21_Witness ==
    /\ Returned
    /\ err = "nil"
    /\ objLines = <<hdrAdd2, insMov, insBx, blankLine>>
    /\ symMachInstrs[Add2][1].Bytes = <<225, 160, 32, 14>>
    /\ symMachInstrs[Add2][2].Bytes = <<225, 47, 255, 30>>

\* letters, digits and "."
MnemonicChars == LowerCase \cup UpperCase \cup Digits \cup {"."}

\* the instruction text of a matched line: what precedes the first ";"
InstructionText(line) == SplitN2(instructionRegex(line)[1].text, ";")[1]

\* the first token of a text: what precedes its first white space
FirstToken(text) ==
    SubSeq(text, 1, Min({k \in 1..Len(text) : text[k] \in WhiteSpace} \cup {Len(text) + 1}) - 1)

\* instruction k of sym has the token as its Command, and the token holds
\* mnemonic characters only
MnemonicIs(sym, k, token) ==
    /\ \A j \in 1..Len(token) : token[j] \in MnemonicChars
    /\ symMachInstrs[sym][k].Command = Str(token)

MnemonicsOf(sym, matched) ==
    \A k \in 1..Len(matched) : MnemonicIs(sym, k, FirstToken(InstructionText(matched[k])))

\* C22: the Command of every instruction returned consists of letters, digits
\* and "." only: a line whose first token holds any other character is not
\* accepted, so every instruction returned has its line's first token as its
\* Command.
C22_MnemonicAlphabet ==
    (Returned /\ err = "nil") =>
        \A sym \in wanted : MnemonicsOf(sym, MatchedLines(symInstrStrings[sym]))

\* the text after the mnemonic of a matched line
AfterMnemonic(line) == opcodeArgsRegex(InstructionText(line))[1].args

\* the operands of a text: none for the empty text, else its parts between
\* commas, trimmed
OperandsOf(rest) ==
    IF rest = <<>> THEN <<>>
    ELSE [i \in 1..Len(Split(rest, ",")) |-> Str(TrimSpace(Split(rest, ",")[i]))]

OperandsOfLines(sym, matched) ==
    \A k \in 1..Len(matched) :
        symMachInstrs[sym][k].Arguments = OperandsOf(AfterMnemonic(matched[k]))

\* C23: the Arguments of an instruction are the parts between commas of the
\* text after the mnemonic, each trimmed, in order; when nothing follows the
\* mnemonic there are no Arguments at all, not one empty one.
C23_OperandsSplitAndTrimmed ==
    (Returned /\ err = "nil") =>
        \A sym \in wanted : OperandsOfLines(sym, MatchedLines(symInstrStrings[sym]))

\* the positions of the header lines of sym
HeadersOf(sym) == {i \in 1..Len(objLines) : IsHeader(sym, objLines[i])}

\* the range of sym is the block that starts at header line h: the lines
\* after it up to the first blank or padding line
BlockStartsAt(sym, h) ==
    /\ h + Len(symInstrStrings[sym]) < Len(objLines)
    /\ symInstrStrings[sym] = SubSeq(objLines, h + 1, h + Len(symInstrStrings[sym]))
    /\ \A j \in 1..Len(symInstrStrings[sym]) : ~symbolEndRegex(symInstrStrings[sym][j])
    /\ symbolEndRegex(objLines[h + Len(symInstrStrings[sym]) + 1])

\* C24: when several lines of the listing are header lines of a symbol, the
\* block extracted for it is the one that starts at the first of them.
C24_FirstHeaderWins ==
    Ranged => \A sym \in wanted :
        Cardinality(HeadersOf(sym)) >= 2 => BlockStartsAt(sym, Min(HeadersOf(sym)))

C24_Witness ==
    /\ Ranged
    /\ objLines = <<hdrAdd2, insMov, blankLine, hdrAdd2, insBx, blankLine>>
    /\ Add2 \in wanted
    /\ symInstrStrings[Add2] = <<insMov>>

\* C27: a successful extraction returns an entry for every requested symbol,
\* an empty block for a symbol whose range holds no instruction line.
C27_EntryForEverySymbol ==
    (Returned /\ err = "nil") => DOMAIN symMachInstrs = wanted

\* no blank or padding line follows the first header of sym
Unterminated(sym) ==
    /\ HeadersOf(sym) # {}
    /\ \A j \in Min(HeadersOf(sym))..Len(objLines) : ~symbolEndRegex(objLines[j])

\* C30: when the header of a requested symbol is found and no blank or
\* padding line follows it before the listing ends, the extraction still
\* returns (the block up to the end of the listing, or an error): no end
\* index before the start is computed and the slice expression does not
\* panic.
C30_UnterminatedBlockReturns ==
    (/\ pc # "find"
     /\ \A sym \in wanted : HeadersOf(sym) # {}
     /\ \E sym \in wanted : Unterminated(sym))
        => /\ pc # "panicked"
           /\ \A sym \in wanted :
                 endOf(objLines, sym) >= startOf(objLines, sym) + 1

\* the line is the header of sym: hex digits, a space, and <sym>: with the
\* name of sym character for character
HeaderNaming(sym, line, h) ==
    /\ h >= 1
    /\ From(line, h + 1) = <<" ", "<">> \o sym \o <<">", ":">>

NamedHeadersOf(sym) ==
    {i \in 1..Len(objLines) : HeaderNaming(sym, objLines[i], RunLen(objLines[i], 1, LowerHex))}

\* the block of sym is there: a header naming it, and a blank or padding line
\* after the first such header
BlockPresent(sym) ==
    /\ NamedHeadersOf(sym) # {}
    /\ \E j \in Min(NamedHeadersOf(sym))..Len(objLines) : symbolEndRegex(objLines[j])

\* C28: the block start taken for a requested symbol is a header line that
\* names the symbol character for character, also when the name holds
\* characters special in regular expressions, and such a name does not make
\* the extraction crash: when the block of every requested symbol is there,
\* the ranges are found.
C28_HeaderNamesSymbolExactly ==
    /\ Ranged => \A sym \in wanted : headerOf(objLines, sym) \in NamedHeadersOf(sym)
    /\ (pc # "find" /\ \A sym \in wanted : BlockPresent(sym)) => pc # "panicked"

-----------------------------------------------------------------------------
(* Properties of processObjdumpTable and parseFlagString, checked under    *)
(* SpecTab                                                                 *)

\* the flag characters objdump prints at each position of the flag column
LegalFlagChars ==
    <<{"l", "g", "u", "!"}, {"w"}, {"C"}, {"W"}, {"I", "i"}, {"d", "D"}, {"F", "f", "O"}>>

\* the flags a flag character names
NamedBy(c) ==
    CASE c = "l" -> {"Local"} [] c = "g" -> {"Global"} [] c = "u" -> {"UniqueGlobal"}
      [] c = "!" -> {"Global", "Local"}
      [] c = "w" -> {"Weak"} [] c = "C" -> {"Constructor"} [] c = "W" -> {"Warning"}
      [] c = "I" -> {"IndirectReference"} [] c = "i" -> {"RelocationProcessingFunction"}
      [] c = "d" -> {"Debugging"} [] c = "D" -> {"Dynamic"}
      [] c = "F" -> {"Function"} [] c = "f" -> {"File"} [] c = "O" -> {"Object"}
      [] OTHER -> {}

IllegalPositions(flagString) ==
    {p \in 0..6 : flagString[p + 1] \notin LegalFlagChars[p + 1] \cup {" "}}

NonBlank(row) == \E k \in 1..Len(row) : row[k] \notin WhiteSpace

NonBlankRows(rows) == SelectSeq(rows, NonBlank)

\* the columns of a trimmed row t, as the row format
\* <hex-address> <7-char-flags> <section>\t<hex-size> <name> lays them out
AddressColumn(t) == SubSeq(t, 1, IndexOf(t, " ") - 1)
AfterAddress(t) == From(t, IndexOf(t, " ") + 1)
FlagColumn(t) == SubSeq(AfterAddress(t), 1, 7)
AfterFlags(t) == From(AfterAddress(t), 9)
SectionColumn(t) == SubSeq(AfterFlags(t), 1, IndexOf(AfterFlags(t), "\t") - 1)
AfterTab(t) == From(AfterFlags(t), IndexOf(AfterFlags(t), "\t") + 1)
NameColumn(t) == From(AfterTab(t), IndexOf(AfterTab(t), " ") + 1)

HasAddress(t) ==
    /\ IndexOf(t, " ") > 1
    /\ \A k \in 1..(IndexOf(t, " ") - 1) : t[k] \in Digits \cup LowerHex \cup UpperHex
HasFlagColumn(t) == IndexOf(t, " ") > 0 /\ Len(AfterAddress(t)) >= 8

\* the column boundary a trimmed non-blank row lacks, "" when it has them all
MissingBoundary(t) ==
    IF IndexOf(t, " ") = 0 THEN "line is incorrectly formatted"
    ELSE IF Len(AfterAddress(t)) < 8 THEN "line is missing flag column"
    ELSE IF IndexOf(AfterFlags(t), "\t") = 0 THEN "line is too short"
    ELSE IF IndexOf(AfterTab(t), " ") = 0 THEN "line is too short"
    ELSE ""

\* the rows that are not empty once trimmed, trimmed
TrimmedRows(rows) == [k \in 1..Len(NonBlankRows(rows)) |-> TrimSpace(NonBlankRows(rows)[k])]

GoodRows == {rowAdd2, rowSub2, rowUnd}

\* the rows before row i are blank or well formed
GoodBefore(i) == \A j \in 1..(i - 1) : ~NonBlank(tableRows[j]) \/ tableRows[j] \in GoodRows

\* the error parseFlagString words for a flag string with illegal positions
InvalidFlagError(flagString, position) ==
    "invalid flag at position " \o DecimalDigit(position) \o " : " \o flagString[position + 1]

FlagsRejected(first, flagString, illegal) ==
    illegal # {} =>
        /\ err # "nil"
        /\ symbols = <<>>
        /\ first => err = InvalidFlagError(flagString, Min(illegal))

\* the trimmed row t, row number i, holds an illegal flag character: the
\* table is rejected
RowRejected(i, t) ==
    HasFlagColumn(t) =>
        FlagsRejected(i = 1 /\ HasAddress(t), FlagColumn(t), IllegalPositions(FlagColumn(t)))

\* C14: a 7-character flag string holding, at any position, a character that
\* is neither a space nor a flag character of that position is rejected: the
\* table yields an error and no Symbol, and when the row is the first of the
\* table the error names the first such position and its character.
C14_IllegalFlagRejected ==
    Returned => \A i \in 1..Len(tableRows) :
        NonBlank(tableRows[i]) => RowRejected(i, TrimSpace(tableRows[i]))

C14_Witness ==
    /\ Returned
    /\ tableRows = <<FlagRow(<<"g", " ", " ", "C", " ", " ", "F">>)>>
    /\ err = "invalid flag at position 3 : C"
    /\ symbols = <<>>

\* the flags of sym are exactly those the characters of flagString name
FlagsAsNamed(sym, flagString) ==
    \A f \in FlagNames : sym.flags[f] = (\E p \in 1..7 : f \in NamedBy(flagString[p]))

\* the row FlagRow(flagString), flagString legal
LegalFlagRow(row, flagString) ==
    row = FlagRow(flagString) /\ IllegalPositions(flagString) = {}

SymbolsAsNamed(trimmed) ==
    \A k \in 1..Len(symbols) : FlagsAsNamed(symbols[k], FlagColumn(trimmed[k]))

\* C15: for a flag string of legal characters, exactly the flags named by its
\* non-space characters are true in the Symbol and every other flag is false
\* ("!" at position 0 names both Global and Local); "  C    " sets only
\* Constructor.
C15_LegalFlagsSetExactly ==
    Returned =>
        /\ (/\ Len(tableRows) = 1
            /\ Len(tableRows[1]) = Len(rowAdd2)
            /\ LegalFlagRow(tableRows[1], SubSeq(tableRows[1], 10, 16)))
           => (err = "nil" /\ Len(symbols) = 1)
        /\ err = "nil" => SymbolsAsNamed(TrimmedRows(tableRows))

C15_Witness ==
    /\ Returned
    /\ tableRows = <<FlagRow(<<" ", " ", "C", " ", " ", " ", " ">>)>>
    /\ err = "nil"
    /\ Len(symbols) = 1
    /\ symbols[1].flags = [f \in FlagNames |-> f = "Constructor"]

\* the error of a row that lacks a column boundary
BoundaryError(row, missing) ==
    "error processing objdump row (" \o missing \o ") : " \o Str(row)

\* row number i lacks a column boundary: the table is rejected, with the
\* error of this row when the rows before it are good
BoundaryRejected(i, row, missing) ==
    missing # "" =>
        /\ err # "nil"
        /\ symbols = <<>>
        /\ GoodBefore(i) => err = BoundaryError(row, missing)

\* one Symbol per trimmed row, in order, with the row's name and section
SymbolsOfRows(trimmed) ==
    /\ Len(symbols) = Len(trimmed)
    /\ \A k \in 1..Len(symbols) :
          /\ symbols[k].Name = Str(NameColumn(trimmed[k]))
          /\ symbols[k].Section = Str(SectionColumn(trimmed[k]))

\* C16: the table yields one Symbol per row that is not empty once trimmed,
\* in order; it yields an error and no Symbol when such a row lacks the space
\* after the address, the flag column, the tab between section and size or
\* the space between size and name, the error being that of the first such
\* row; rows empty once trimmed are ignored.
C16_OneSymbolPerRow ==
    Returned =>
        /\ \A i \in 1..Len(tableRows) :
              NonBlank(tableRows[i]) =>
                  BoundaryRejected(i, tableRows[i], MissingBoundary(TrimSpace(tableRows[i])))
        /\ GoodBefore(Len(tableRows) + 1) => err = "nil"
        /\ err = "nil" => SymbolsOfRows(TrimmedRows(tableRows))

C16_Witness ==
    /\ Returned
    /\ tableRows = <<rowAdd2, spacesRow, rowSub2>>
    /\ err = "nil"
    /\ Len(symbols) = 2
    /\ symbols[1].Name = "Add2" /\ symbols[2].Name = "Sub2" /\ symbols[2].Section = ".data"

-----------------------------------------------------------------------------
(* Properties of makeAssembler, checked under SpecMake *)

\* the executable the arguments select: the file, or the one found on $PATH
\* for the name
SelectedExecutable ==
    IF assemblerFile # <<>> THEN assemblerFile
    ELSE IF assemblerName = "gas" THEN lookPath["as"]
    ELSE IF assemblerName = "arm-linux-gnueabihf-as" THEN lookPath["arm-linux-gnueabihf-as"]
    ELSE <<>>

BaseName(path) == From(path, LastIndexOf(path, "/") + 1)
Directory(path) == SubSeq(path, 1, LastIndexOf(path, "/"))

\* a GNU assembler selected by file path or by name, with a base name ending in as
GnuSelected ==
    /\ assemblerName \in {"", "gas", "arm-linux-gnueabihf-as"}
    /\ SelectedExecutable # <<>>
    /\ HasSuffix(BaseName(SelectedExecutable), <<"a", "s">>)

\* C20: for a GNU assembler executable whose base name ends in as, selected
\* by name or by file path, makeAssembler returns a GnuAssembler whose
\* AsExecutable is the path, whose BinToolsFolder is its directory and whose
\* Prefix is the base name without the trailing as; every companion tool
\* resolves to the path BinToolsFolder + Prefix + tool name.
C20_GnuAssemblerFields ==
    (pc # "call" /\ GnuSelected) =>
        /\ pc = "made"
        /\ as.kind = "GnuAssembler"
        /\ as.AsExecutable = SelectedExecutable
        /\ as.BinToolsFolder = Directory(SelectedExecutable)
        /\ as.Prefix = SubSeq(BaseName(SelectedExecutable), 1,
                              Len(BaseName(SelectedExecutable)) - 2)
        /\ \A tool \in DOMAIN tools :
              Clean(tools[tool]) = Clean(as.BinToolsFolder \o as.Prefix \o ToolNames[tool])

-----------------------------------------------------------------------------
(* Properties of main, checked under SpecMain *)

\* the loop over the symbols is over
Filtered == pc \in {"extract", "generate", "exit0"}

\* a symbol that is a debugging, warning or file symbol, or lies in no real
\* section
Useless(sym) ==
    \/ sym.flags["Debugging"] \/ sym.flags["Warning"] \/ sym.flags["File"]
    \/ sym.Section \in {"*UND*", "*ABS*"}

\* the symbol is the one handed to the extraction under its name
Passed(sym) == sym.Name \in DOMAIN usefulSymbolMap /\ usefulSymbolMap[sym.Name] = sym

\* no other symbol of the table has the name of symbol k
UniqueName(k) == \A j \in 1..Len(symbols) : symbols[j].Name = symbols[k].Name => j = k

\* C25: a decoded symbol is handed to the instruction extraction if and only
\* if it is not a debugging, warning or file symbol and its section is
\* neither *UND* nor *ABS*: the names handed over are those of such symbols,
\* each with such a symbol of the table as its value, and a symbol whose name
\* is unique in the table is handed over exactly when it is such a symbol.
C25_UsefulSymbolsPassed ==
    Filtered =>
        /\ DOMAIN usefulSymbolMap =
              {symbols[k].Name : k \in {j \in 1..Len(symbols) : ~Useless(symbols[j])}}
        /\ \A name \in DOMAIN usefulSymbolMap :
              /\ ~Useless(usefulSymbolMap[name])
              /\ usefulSymbolMap[name].Name = name
              /\ \E k \in 1..Len(symbols) : symbols[k] = usefulSymbolMap[name]
        /\ \A k \in 1..Len(symbols) :
              UniqueName(k) => (Passed(symbols[k]) <=> ~Useless(symbols[k]))

C25_Witness ==
    /\ Filtered
    /\ tableRows = <<rowFile, rowDebug, rowAdd2, rowSub2, rowUnd>>
    /\ Len(symbols) = 5
    /\ DOMAIN usefulSymbolMap = {"Add2", "Sub2"}
    /\ usefulSymbolNames = <<"Add2", "Sub2">>

\* C29: whatever the -as option, main calls AssembleToMachineCode on a usable
\* assembler or exits with a message: it never goes on with the nil
\* assembler, and does not crash on it.
C29_NeverAssemblesWithNil ==
    /\ pc = "assemble" => as.kind = "GnuAssembler"
    /\ pc # "panicked"

====
